---- MODULE Spec2Model ----
(***************************************************************************)
(* juststore: the path-addressed reactive store engine.                    *)
(*                                                                         *)
(* Strings (keys, paths, path segments, object keys) are sequences of      *)
(* characters, so that split, slice, indexOf and endsWith act as they do   *)
(* on JavaScript strings.  The reserved segment "__juststore_keys" is one  *)
(* token of a string.                                                      *)
(*                                                                         *)
(* A JavaScript value is a record                                          *)
(*    t   : "undefined" | "null" | "number" | "object" | "array"           *)
(*    n   : the number (0 otherwise)                                       *)
(*    id  : the identity (allocation) of a container                       *)
(*    ho, ord : whether externalKeyOrder holds a record for the container, *)
(*              and that record                                            *)
(*    e   : the entries [k, v] of a container: the own properties of an    *)
(*          object in native enumeration order (integer keys ascending,    *)
(*          then the other keys in insertion order), or the elements of    *)
(*          an array (k is the empty string)                               *)
(***************************************************************************)
EXTENDS Integers, Sequences, FiniteSets, TLC

VARIABLES
    nested,         \* the current call of setNestedValue: its arguments and result
    inMemStorage,   \* per tab: Map namespace -> root value (shared by store and memoryStore)
    localStorage,   \* the durable medium shared by the tabs: namespace -> parsed JSON item
    listeners,      \* per tab: Map key -> Set of listeners (in insertion order)
    descendantListenerKeysByPrefix, \* per tab: Map prefix -> Set of keys
    virtualRevisions, \* per tab: Map virtual key -> revision
    handles,        \* per tab: the unsubscribe closures handed out by subscribe
    channel,        \* per tab: the BroadcastChannel messages posted to it and not yet handled
    openTabs,       \* the tabs that have the page open
    concurrent,     \* history: some tab wrote before it handled a message posted to it
    fired,          \* history: the listener invocations of the last operation, in order
    last,           \* history: the last operation, its arguments and the stores before it
    environment     \* the global context the module runs in

vars == <<nested, inMemStorage, localStorage, listeners, descendantListenerKeysByPrefix,
          virtualRevisions, handles, channel, openTabs, concurrent, fired, last,
          environment>>

-----------------------------------------------------------------------------
(* Strings *)

DOT == "."
KEYS_MARK == "__juststore_keys"

Max(a, b) == IF a >= b THEN a ELSE b

DigitValue(c) ==
    CASE c = "0" -> 0 [] c = "1" -> 1 [] c = "2" -> 2 [] c = "3" -> 3 [] c = "4" -> 4
      [] c = "5" -> 5 [] c = "6" -> 6 [] c = "7" -> 7 [] c = "8" -> 8 [] c = "9" -> 9
      [] OTHER -> -1

RECURSIVE NumberOf(_)
NumberOf(s) == IF s = <<>> THEN 0
               ELSE 10 * NumberOf(SubSeq(s, 1, Len(s) - 1)) + DigitValue(s[Len(s)])

\* parseArrayIndex as Number(segment) of a string of digits: 0 for the empty string
parseArrayIndexNumber(segment) ==
    IF \A i \in 1..Len(segment) : DigitValue(segment[i]) >= 0
    THEN NumberOf(segment)
    ELSE -1

\* parseArrayIndex: the number, or -1 for null. /^(0|[1-9]\d*)$/
parseArrayIndex(segment) ==
    IF /\ segment # <<>>
       /\ \A i \in 1..Len(segment) : DigitValue(segment[i]) >= 0
       /\ (Len(segment) = 1 \/ segment[1] # "0")
    THEN NumberOf(segment)
    ELSE -1

RECURSIVE splitRec(_, _)
splitRec(s, cur) ==
    IF s = <<>> THEN <<cur>>
    ELSE IF Head(s) = DOT THEN <<cur>> \o splitRec(Tail(s), <<>>)
    ELSE splitRec(Tail(s), Append(cur, Head(s)))

\* String.prototype.split('.')
split(s) == splitRec(s, <<>>)

\* String.prototype.indexOf('.'): 0-based, -1 when absent
indexOfDot(s) ==
    IF \E i \in 1..Len(s) : s[i] = DOT
    THEN (CHOOSE i \in 1..Len(s) : s[i] = DOT /\ \A j \in 1..(i - 1) : s[j] # DOT) - 1
    ELSE -1

\* String.prototype.slice(from) and slice(from, to), 0-based, to exclusive
slice(s, from) == SubSeq(s, from + 1, Len(s))
slice2(s, from, to) == SubSeq(s, from + 1, to)

endsWith(s, suffix) ==
    /\ Len(s) >= Len(suffix)
    /\ SubSeq(s, Len(s) - Len(suffix) + 1, Len(s)) = suffix

RECURSIVE joinSegments(_)
joinSegments(segs) ==
    IF Len(segs) = 0 THEN <<>>
    ELSE IF Len(segs) = 1 THEN segs[1]
    ELSE segs[1] \o <<DOT>> \o joinSegments(Tail(segs))

-----------------------------------------------------------------------------
(* Values *)

Undefined == [t |-> "undefined", n |-> 0, id |-> 0, ho |-> FALSE, ord |-> <<>>, e |-> <<>>]
Null      == [t |-> "null", n |-> 0, id |-> 0, ho |-> FALSE, ord |-> <<>>, e |-> <<>>]
Num(x)    == [t |-> "number", n |-> x, id |-> 0, ho |-> FALSE, ord |-> <<>>, e |-> <<>>]
Entry(k, v) == [k |-> k, v |-> v]
Obj(id, entries) ==
    [t |-> "object", n |-> 0, id |-> id, ho |-> FALSE, ord |-> <<>>, e |-> entries]
Arr(id, elems) ==
    [t |-> "array", n |-> 0, id |-> id, ho |-> FALSE, ord |-> <<>>,
     e |-> [i \in 1..Len(elems) |-> Entry(<<>>, elems[i])]]

isArray(v) == v.t = "array"
\* typeof v === 'object' && v !== null
isContainer(v) == v.t \in {"object", "array"}
\* v === null || v === undefined
isNullish(v) == v.t \in {"undefined", "null"}

\* Object.hasOwn(o, k)
hasOwn(o, k) == \E i \in 1..Len(o.e) : o.e[i].k = k
keyPos(o, k) == CHOOSE i \in 1..Len(o.e) : o.e[i].k = k
\* o[k] of a plain object
getProp(o, k) == IF hasOwn(o, k) THEN o.e[keyPos(o, k)].v ELSE Undefined
\* Object.keys(o)
objectKeys(o) == [i \in 1..Len(o.e) |-> o.e[i].k]

\* the place a new property takes in the native enumeration order
insertPos(o, k) ==
    IF parseArrayIndex(k) = -1 THEN Len(o.e) + 1
    ELSE LET later == {i \in 1..Len(o.e) :
                          \/ parseArrayIndex(o.e[i].k) = -1
                          \/ parseArrayIndex(o.e[i].k) > parseArrayIndex(k)}
         IN IF later = {} THEN Len(o.e) + 1
            ELSE CHOOSE i \in later : \A j \in later : i <= j

\* o[k] = v
setProp(o, k, v) ==
    IF hasOwn(o, k)
    THEN [o EXCEPT !.e[keyPos(o, k)].v = v]
    ELSE LET p == insertPos(o, k)
         IN [o EXCEPT !.e = SubSeq(o.e, 1, p - 1) \o <<Entry(k, v)>> \o SubSeq(o.e, p, Len(o.e))]

\* delete o[k]
deleteProp(o, k) ==
    IF hasOwn(o, k)
    THEN LET p == keyPos(o, k)
         IN [o EXCEPT !.e = SubSeq(o.e, 1, p - 1) \o SubSeq(o.e, p + 1, Len(o.e))]
    ELSE o

\* a[i]
getIndex(a, i) == IF i < Len(a.e) THEN a.e[i + 1].v ELSE Undefined

\* setIndex with the value pushed at the end of a shorter array, whatever the index
setIndexPush(a, i, v) ==
    IF i < Len(a.e)
    THEN [a EXCEPT !.e[i + 1].v = v]
    ELSE [a EXCEPT !.e = Append(a.e, Entry(<<>>, v))]

\* a[i] = v (the elements skipped over read as undefined)
setIndex(a, i, v) ==
    IF i < Len(a.e)
    THEN [a EXCEPT !.e[i + 1].v = v]
    ELSE [a EXCEPT !.e = a.e \o [j \in 1..(i - Len(a.e)) |-> Entry(<<>>, Undefined)]
                             \o <<Entry(<<>>, v)>>]

\* a.splice(i, 1)
spliceOne(a, i) ==
    IF i < Len(a.e)
    THEN [a EXCEPT !.e = SubSeq(a.e, 1, i) \o SubSeq(a.e, i + 2, Len(a.e))]
    ELSE a

\* { ...existing } and [...existing]: a new container with the same entries
\* and no key order record
shallowCopy(existing, id) == [existing EXCEPT !.id = id, !.ho = FALSE, !.ord = <<>>]

\* setExternalKeyOrder recording the native order instead of the given one
setExternalKeyOrderNative(target, keys) ==
    [target EXCEPT !.ho = TRUE, !.ord = objectKeys(target)]

\* externalKeyOrder.set(target, keys)
setExternalKeyOrder(target, keys) == [target EXCEPT !.ho = TRUE, !.ord = keys]

\* const order = getExternalKeyOrder(existing); if (order) setExternalKeyOrder(next, order)
carryOrder(next, existing) ==
    IF existing.ho THEN setExternalKeyOrder(next, existing.ord) ELSE next

-----------------------------------------------------------------------------
(* Equality *)

RECURSIVE rfcIsEqual(_, _)
\* react-fast-compare on plain data
rfcIsEqual(a, b) ==
    IF isContainer(a) /\ isContainer(b)
    THEN /\ a.t = b.t
         /\ Len(a.e) = Len(b.e)
         /\ IF isArray(a)
            THEN \A i \in 1..Len(a.e) : rfcIsEqual(a.e[i].v, b.e[i].v)
            ELSE /\ \A i \in 1..Len(a.e) : hasOwn(b, a.e[i].k)
                 /\ \A i \in 1..Len(a.e) : rfcIsEqual(a.e[i].v, getProp(b, a.e[i].k))
    ELSE a.t = b.t /\ a.n = b.n

\* a === b is modelled by equality of the records (same identity, same content);
\* no class instance is modelled, so isClass is false
isEqual(a, b) == a = b \/ rfcIsEqual(a, b)

-----------------------------------------------------------------------------
(* Ordered-key tracker *)

isRecord(value) == isContainer(value) /\ ~isArray(value)

\* the corrected order of getStableKeys when a record exists
correctedOrder(target) ==
    LET next == SelectSeq(target.ord, LAMBDA k : hasOwn(target, k))
        inNext(k) == \E i \in 1..Len(next) : next[i] = k
    IN next \o SelectSeq(objectKeys(target), LAMBDA k : ~inNext(k))

\* getStableKeys: the keys it returns
getStableKeys(value) ==
    IF ~isRecord(value) THEN <<>>
    ELSE IF value.ho THEN correctedOrder(value)
    ELSE objectKeys(value)

\* getStableKeys: the value with the order record getStableKeys leaves for it
stableKeysRecorded(value) ==
    IF ~isRecord(value) THEN value
    ELSE IF value.ho
    THEN IF Len(correctedOrder(value)) # Len(value.ord)
         THEN setExternalKeyOrder(value, correctedOrder(value))
         ELSE value
    ELSE setExternalKeyOrder(value, objectKeys(value))

-----------------------------------------------------------------------------
(* Path traversal *)

RECURSIVE getNestedRec(_, _)
getNestedRec(current, segments) ==
    IF segments = <<>> THEN current
    ELSE IF isNullish(current) THEN Undefined
    ELSE IF ~isContainer(current) THEN Undefined
    ELSE IF isArray(current)
    THEN LET index == parseArrayIndex(Head(segments))
         IN IF index = -1 THEN Undefined
            ELSE getNestedRec(getIndex(current, index), Tail(segments))
    ELSE getNestedRec(getProp(current, Head(segments)), Tail(segments))

getNestedValue(obj, path) ==
    IF path = <<>> THEN obj ELSE getNestedRec(obj, split(path))

RECURSIVE maxId(_)
\* the largest identity allocated in v
maxId(v) ==
    IF Len(v.e) = 0 THEN v.id
    ELSE LET m[i \in 0..Len(v.e)] == IF i = 0 THEN v.id ELSE Max(m[i - 1], maxId(v.e[i].v))
         IN m[Len(v.e)]

\* lines 270-300: the last segment, applied to the container the loop stopped at
applyLast(current, lastSegment, value) ==
    IF isArray(current)
    THEN LET index == parseArrayIndex(lastSegment)
         IN IF index = -1 THEN current
            ELSE IF value.t = "undefined" THEN spliceOne(current, index)
            ELSE setIndex(current, index, value)
    ELSE LET hadKey == hasOwn(current, lastSegment)
         IN IF value.t = "undefined"
            THEN IF hadKey /\ current.ho
                 THEN setExternalKeyOrder(deleteProp(current, lastSegment),
                                          SelectSeq(current.ord, LAMBDA k : k # lastSegment))
                 ELSE deleteProp(current, lastSegment)
            ELSE IF ~hadKey /\ current.ho
                 THEN setExternalKeyOrder(setProp(current, lastSegment, value),
                                          Append(current.ord, lastSegment))
                 ELSE setProp(current, lastSegment, value)

RECURSIVE walk(_, _, _, _, _)
\* lines 227-268 from iteration i on (1-based), then the last segment; current is
\* the fresh copy being filled in, and the copy made in iteration i has identity fresh + i
walk(current, segments, i, value, fresh) ==
    IF i >= Len(segments) THEN applyLast(current, segments[Len(segments)], value)
    ELSE LET segment == segments[i]
             isNextIndex == parseArrayIndex(segments[i + 1]) # -1
             created == IF isNextIndex THEN Arr(fresh + i, <<>>) ELSE Obj(fresh + i, <<>>)
         IN IF isArray(current)
            THEN LET index == parseArrayIndex(segment)
                 IN IF index = -1
                    THEN applyLast(current, segments[Len(segments)], value)
                    ELSE LET existing == getIndex(current, index)
                             next == IF ~isContainer(existing) THEN created
                                     ELSE shallowCopy(existing, fresh + i)
                         IN setIndex(current, index,
                                     walk(next, segments, i + 1, value, fresh))
            ELSE LET existing == getProp(current, segment)
                     next == IF ~isContainer(existing) THEN created
                             ELSE IF isArray(existing) THEN shallowCopy(existing, fresh + i)
                             ELSE carryOrder(shallowCopy(existing, fresh + i), existing)
                 IN setProp(current, segment, walk(next, segments, i + 1, value, fresh))

\* the new containers take identities above every identity in obj and value
setNestedValue(obj, path, value) ==
    IF path = <<>> THEN value
    ELSE IF ~isNullish(obj) /\ ~isContainer(obj) THEN obj
    ELSE LET fresh == 1 + Max(maxId(obj), maxId(value))
             result == IF isNullish(obj) THEN Obj(fresh, <<>>)
                       ELSE IF isArray(obj) THEN shallowCopy(obj, fresh)
                       ELSE carryOrder(shallowCopy(obj, fresh), obj)
         IN walk(result, split(path), 1, value, fresh)

-----------------------------------------------------------------------------
(* Maps *)

EmptyMap == [k \in {} |-> Undefined]
mapHas(m, k) == k \in DOMAIN m
mapSet(m, k, v) == [x \in (DOMAIN m) \cup {k} |-> IF x = k THEN v ELSE m[x]]
mapDelete(m, k) == [x \in (DOMAIN m) \ {k} |-> m[x]]

-----------------------------------------------------------------------------
(* Copies that leave the tab's heap *)

RECURSIVE anonymous(_)
\* v with the identities dropped: the stores compare no identities, and hold a tree
anonymous(v) ==
    [v EXCEPT !.id = 0, !.e = [i \in 1..Len(v.e) |-> Entry(v.e[i].k, anonymous(v.e[i].v))]]

RECURSIVE structuredClone(_)
\* the copy postMessage delivers: same data, new objects, no key order records
structuredClone(v) ==
    [v EXCEPT !.id = 0, !.ho = FALSE, !.ord = <<>>,
              !.e = [i \in 1..Len(v.e) |-> Entry(v.e[i].k, structuredClone(v.e[i].v))]]

RECURSIVE jsonClone(_)
\* JSON.parse(JSON.stringify(v)) for a defined v: undefined properties are dropped,
\* undefined array elements become null
jsonClone(v) ==
    IF isArray(v)
    THEN [v EXCEPT !.id = 0, !.ho = FALSE, !.ord = <<>>,
                   !.e = [i \in 1..Len(v.e) |->
                            Entry(<<>>, IF v.e[i].v.t = "undefined" THEN Null
                                        ELSE jsonClone(v.e[i].v))]]
    ELSE IF isContainer(v)
    THEN LET kept == SelectSeq(v.e, LAMBDA x : x.v.t # "undefined")
         IN [v EXCEPT !.id = 0, !.ho = FALSE, !.ord = <<>>,
                      !.e = [i \in 1..Len(kept) |-> Entry(kept[i].k, jsonClone(kept[i].v))]]
    ELSE v

-----------------------------------------------------------------------------
(* Keys *)

isVirtualKey(key) == endsWith(key, <<DOT, KEYS_MARK>>) \/ key = <<KEYS_MARK>>

getNamespace(key) ==
    LET index == indexOfDot(key)
    IN IF index = -1 THEN key ELSE slice2(key, 0, index)

splitNSPath(key) ==
    LET index == indexOfDot(key)
    IN IF index = -1 THEN <<key, <<>>>>
       ELSE <<slice2(key, 0, index), slice(key, index + 1)>>

joinPath(namespace, path) ==
    IF path = <<>> THEN namespace ELSE namespace \o <<DOT>> \o path

joinChildKey(parent, child) ==
    IF parent # <<>> THEN parent \o <<DOT>> \o child ELSE child

\* const [first, ...parts] = key.split('.'); the loop runs i = 1 .. parts.length - 2
\* over the 0-based parts[i], then first is put in front
getKeyPrefixes(key) ==
    IF indexOfDot(key) = -1 THEN <<>>
    ELSE LET first == split(key)[1]
             parts == Tail(split(key))
         IN IF Len(parts) = 0 THEN <<>>
            ELSE IF Len(parts) < 3 THEN <<first>>
            ELSE <<first>> \o
                 [i \in 1..(Len(parts) - 2) |->
                     joinSegments(<<first>> \o SubSeq(parts, 2, i + 1))]

-----------------------------------------------------------------------------
(* KVStore.  A world w is what one tab's code reads and writes during an operation:
   mem (inMemStorage), ls (localStorage), posts (the messages it posts),
   lst (listeners), desc (descendantListenerKeysByPrefix), rev (virtualRevisions),
   fired (the listeners invoked, in order), env (the global context), log (for every
   call of localStorageSet, localStorageDelete and postMessage, in order, how many
   listeners the operation had invoked before it). *)

\* the entry of the log for a call made now
Logged(w, event) == [event |-> event, invoked |-> Len(w.fired)]

\* the global contexts: a browser page whose localStorage works, a browser page whose
\* localStorage throws on every call (storage disabled, quota exceeded), and a context
\* without window (no localStorage, no BroadcastChannel)
Environments == {"browser", "throwing", "server"}

\* typeof window !== 'undefined', taken to hold in every context
hasWindowAlways(w) == TRUE

\* typeof window !== 'undefined'
hasWindow(w) == w.env # "server"

\* an item of localStorage that JSON.parse throws on
Corrupt == [t |-> "corrupt", n |-> 0, id |-> 0, ho |-> FALSE, ord |-> <<>>, e |-> <<>>]

mapGet(m, k) == IF mapHas(m, k) THEN m[k] ELSE Undefined
\* map.get(k) of a registry of Sets, an absent Set read as an empty one
setOf(m, k) == IF mapHas(m, k) THEN m[k] ELSE <<>>

\* a ?? b
coalesce(a, b) == IF isNullish(a) THEN b ELSE a

\* localStorageGet without its try/catch, the unparseable item handed on
localStorageGetUncaught(w, key) ==
    IF ~hasWindow(w) THEN Undefined ELSE mapGet(w.ls, key)

\* localStorageGet: item ? JSON.parse(item) : undefined, and undefined when getItem or
\* JSON.parse throws
localStorageGet(w, key) ==
    IF ~hasWindow(w) THEN Undefined
    ELSE IF w.env = "throwing" THEN Undefined
    ELSE IF mapGet(w.ls, key) = Corrupt THEN Undefined
    ELSE mapGet(w.ls, key)

\* localStorageSet: the medium it leaves (as it was when setItem or removeItem throws)
localStorageSet(w, key, value) ==
    IF ~hasWindow(w) THEN w.ls
    ELSE IF w.env = "throwing" THEN w.ls
    ELSE IF value.t = "undefined" THEN mapDelete(w.ls, key)
    ELSE mapSet(w.ls, key, jsonClone(value))

\* localStorageDelete: the medium it leaves
localStorageDelete(w, key) ==
    IF ~hasWindow(w) THEN w.ls
    ELSE IF w.env = "throwing" THEN w.ls
    ELSE mapDelete(w.ls, key)

Message(type, key, value) == [type |-> type, key |-> key, value |-> structuredClone(value)]

\* KVStore.get: the root value it finds
kvRootValue(w, rootKey, memoryOnly) ==
    IF mapHas(w.mem, rootKey) THEN w.mem[rootKey]
    ELSE IF ~memoryOnly /\ hasWindow(w) THEN localStorageGet(w, rootKey)
    ELSE Undefined

\* KVStore.get: the value it returns
kvGet(w, key, memoryOnly) ==
    LET rootKey == splitNSPath(key)[1]
        path == splitNSPath(key)[2]
        rootValue == kvRootValue(w, rootKey, memoryOnly)
    IN IF path = <<>> THEN rootValue ELSE getNestedValue(rootValue, path)

\* KVStore.get: the world it leaves (a root read from localStorage is cached)
kvGetWorld(w, key, memoryOnly) ==
    LET rootKey == splitNSPath(key)[1]
    IN IF /\ ~mapHas(w.mem, rootKey)
          /\ ~memoryOnly
          /\ hasWindow(w)
          /\ localStorageGet(w, rootKey).t # "undefined"
       THEN [w EXCEPT !.mem = mapSet(w.mem, rootKey, localStorageGet(w, rootKey))]
       ELSE w

\* kvPersist without the postMessage
kvPersistUnposted(w, rootKey, rootValue, memoryOnly) ==
    IF memoryOnly \/ ~hasWindow(w) THEN w
    ELSE [w EXCEPT !.ls = localStorageSet(w, rootKey, rootValue)]

\* the persist-and-broadcast tail of set and of a nested delete
kvPersist(w, rootKey, rootValue, memoryOnly) ==
    IF memoryOnly \/ ~hasWindow(w) THEN w
    ELSE [w EXCEPT !.ls = localStorageSet(w, rootKey, rootValue),
                   !.posts = Append(w.posts, Message("set", rootKey, rootValue)),
                   !.log = w.log \o <<Logged(w, "persist"), Logged(w, "post")>>]

\* KVStore.delete
kvDelete(w, key, memoryOnly) ==
    LET rootKey == splitNSPath(key)[1]
        path == splitNSPath(key)[2]
    IN IF path = <<>>
       THEN LET w1 == [w EXCEPT !.mem = mapDelete(w.mem, rootKey)]
            IN IF memoryOnly \/ ~hasWindow(w) THEN w1
               ELSE [w1 EXCEPT !.ls = localStorageDelete(w, rootKey),
                               !.posts = Append(w.posts, Message("delete", rootKey, Undefined)),
                               !.log = w.log \o <<Logged(w, "persist"), Logged(w, "post")>>]
       ELSE LET currentRoot == coalesce(mapGet(w.mem, rootKey), localStorageGet(w, rootKey))
            IN IF currentRoot.t = "undefined" THEN w
               ELSE LET updatedRoot == anonymous(setNestedValue(currentRoot, path, Undefined))
                    IN kvPersist([w EXCEPT !.mem = mapSet(w.mem, rootKey, updatedRoot)],
                                 rootKey, updatedRoot, memoryOnly)

\* KVStore.set
kvSet(w, key, value, memoryOnly) ==
    IF value.t = "undefined" THEN kvDelete(w, key, memoryOnly)
    ELSE LET rootKey == splitNSPath(key)[1]
             path == splitNSPath(key)[2]
             currentRoot == coalesce(coalesce(mapGet(w.mem, rootKey),
                                              localStorageGet(w, rootKey)),
                                     Obj(0, <<>>))
             rootValue == IF path = <<>> THEN anonymous(value)
                          ELSE anonymous(setNestedValue(currentRoot, path, value))
         IN kvPersist([w EXCEPT !.mem = mapSet(w.mem, rootKey, rootValue)],
                      rootKey, rootValue, memoryOnly)

\* getSnapshot: the value it returns
getSnapshot(w, key, memoryOnly) ==
    IF isVirtualKey(key) THEN Num(IF mapHas(w.rev, key) THEN w.rev[key] ELSE 0)
    ELSE kvGet(w, key, memoryOnly)

\* getSnapshot: the world it leaves
getSnapshotWorld(w, key, memoryOnly) ==
    IF isVirtualKey(key) THEN w ELSE kvGetWorld(w, key, memoryOnly)

updateSnapshot(w, key, value, memoryOnly) == kvSet(w, key, value, memoryOnly)

-----------------------------------------------------------------------------
(* Listener registry *)

\* Set.add
setAdd(set, x) == IF \E i \in 1..Len(set) : set[i] = x THEN set ELSE Append(set, x)
\* Set.delete
setDelete(set, x) == SelectSeq(set, LAMBDA y : y # x)

RECURSIVE addDescendant(_, _, _, _)
\* lines 449-454: the loop over the prefixes of key, from the i-th on
addDescendant(desc, prefixes, key, i) ==
    IF i > Len(prefixes) THEN desc
    ELSE addDescendant(mapSet(desc, prefixes[i], setAdd(setOf(desc, prefixes[i]), key)),
                       prefixes, key, i + 1)

\* subscribe: the registries it leaves
subscribe(w, key, listener) ==
    [w EXCEPT !.lst = mapSet(w.lst, key, setAdd(setOf(w.lst, key), listener)),
              !.desc = addDescendant(w.desc, getKeyPrefixes(key), key, 1)]

\* the loop over the prefixes left out: the reverse index stays as it is
dropDescendantKeeping(desc, prefixes, key, i) == desc

RECURSIVE dropDescendant(_, _, _, _)
\* lines 463-471: the loop over the prefixes of key, from the i-th on
dropDescendant(desc, prefixes, key, i) ==
    IF i > Len(prefixes) THEN desc
    ELSE LET prefixKeys == setDelete(setOf(desc, prefixes[i]), key)
             next == IF ~mapHas(desc, prefixes[i]) THEN desc
                     ELSE IF Len(prefixKeys) = 0 THEN mapDelete(desc, prefixes[i])
                     ELSE mapSet(desc, prefixes[i], prefixKeys)
         IN dropDescendant(next, prefixes, key, i + 1)

\* the closure subscribe returns, leaving the listener in its set
unsubscribeLeaving(w, key, listener) == w

\* the closure subscribe returns
unsubscribe(w, key, listener) ==
    IF ~mapHas(w.lst, key) THEN w
    ELSE LET keyListeners == setDelete(w.lst[key], listener)
         IN IF Len(keyListeners) = 0
            THEN [w EXCEPT !.lst = mapDelete(w.lst, key),
                           !.desc = dropDescendant(w.desc, getKeyPrefixes(key), key, 1)]
            ELSE [w EXCEPT !.lst = mapSet(w.lst, key, keyListeners)]

-----------------------------------------------------------------------------
(* Notification engine *)

listenersOf(w, key) == setOf(w.lst, key)

\* Set.has
setHas(set, x) == \E i \in 1..Len(set) : set[i] = x

\* the listeners whose body calls the handle subscribe returned for them
SelfStopping == {"s"}

\* the listeners whose body subscribes another listener to the key they are invoked for,
\* and the listener they subscribe
Subscribing == {"p"}
SubscribedInside == "q"

\* what the body of the listener does to the registry when it is invoked for key
listenerBody(w, key, listener) ==
    IF listener \in SelfStopping THEN unsubscribe(w, key, listener)
    ELSE IF listener \in Subscribing THEN subscribe(w, key, SubscribedInside)
    ELSE w

RECURSIVE invokeEach(_, _, _, _)
\* listenerSet.forEach(listener => listener()) from the i-th listener on: forEach walks
\* the live Set in insertion order, so it passes over the listeners deleted from the set
\* before their turn and goes on to the listeners added to it during the walk;
\* listenerSet is the walk so far and to come
invokeEach(w, key, listenerSet, i) ==
    IF i > Len(listenerSet) THEN w
    ELSE IF ~setHas(setOf(w.lst, key), listenerSet[i])
    THEN invokeEach(w, key, listenerSet, i + 1)
    ELSE LET called == [w EXCEPT !.fired = Append(w.fired, [key |-> key, l |-> listenerSet[i]])]
             after == listenerBody(called, key, listenerSet[i])
             added == SelectSeq(setOf(after.lst, key), LAMBDA x : ~setHas(listenerSet, x))
         IN invokeEach(after, key, listenerSet \o added, i + 1)

\* listenerSet.forEach(listener => listener()), when listeners has a set for key
invoke(w, key) ==
    IF mapHas(w.lst, key) THEN invokeEach(w, key, w.lst[key], 1) ELSE w

RECURSIVE notifyListeners(_, _, _, _, _, _, _)

notifyVirtualKey(w, key) ==
    notifyListeners(
        [w EXCEPT !.rev = mapSet(w.rev, key, (IF mapHas(w.rev, key) THEN w.rev[key] ELSE 0) + 1)],
        key, Undefined, Undefined, TRUE, TRUE, TRUE)

RECURSIVE bumpVirtualKeys(_, _, _)
\* lines 329-337: the loop over [...getKeyPrefixes(key), key], from the i-th path on
bumpVirtualKeys(w, paths, i) ==
    IF i > Len(paths) THEN w
    ELSE LET virtualKey == joinChildKey(paths[i], <<KEYS_MARK>>)
         IN bumpVirtualKeys(IF mapHas(w.lst, virtualKey) /\ Len(w.lst[virtualKey]) > 0
                            THEN notifyVirtualKey(w, virtualKey)
                            ELSE w,
                            paths, i + 1)

RECURSIVE invokePrefixes(_, _, _, _)
\* lines 373-382: the loop over the intermediate ancestors, from the i-th prefix on
invokePrefixes(w, prefixes, namespace, i) ==
    IF i > Len(prefixes) THEN w
    ELSE invokePrefixes(IF prefixes[i] = namespace THEN w ELSE invoke(w, prefixes[i]),
                        prefixes, namespace, i + 1)

\* lines 391-393: the path of the object whose keys a virtual child key stands for
objectPathOf(key, childKey) ==
    LET childPath == slice(childKey, Len(key) + 1)
        suffix == <<DOT, KEYS_MARK>>
    IN IF endsWith(childPath, suffix)
       THEN slice2(childPath, 0, Len(childPath) - Len(suffix))
       ELSE <<>>

\* lines 395-398
getKeys(root, objectPath) ==
    getStableKeys(IF objectPath # <<>> THEN getNestedValue(root, objectPath) ELSE root)

RECURSIVE notifyChildren(_, _, _, _, _, _, _)
\* lines 389-421: the loop over childKeys, from the i-th child key on (for-of passes
\* over a child key deleted from the set before its turn)
notifyChildren(w, key, childKeys, i, oldValue, newValue, forceNotify) ==
    IF i > Len(childKeys) THEN w
    ELSE LET childKey == childKeys[i]
             childPath == slice(childKey, Len(key) + 1)
             w1 == IF ~setHas(setOf(w.desc, key), childKey) THEN w
                   ELSE IF isVirtualKey(childKey)
                   THEN IF \/ forceNotify
                           \/ getKeys(oldValue, objectPathOf(key, childKey))
                                # getKeys(newValue, objectPathOf(key, childKey))
                        THEN notifyVirtualKey(w, childKey)
                        ELSE w
                   ELSE IF \/ forceNotify
                           \/ ~isEqual(getNestedValue(oldValue, childPath),
                                       getNestedValue(newValue, childPath))
                        THEN invoke(w, childKey)
                        ELSE w
         IN notifyChildren(w1, key, childKeys, i + 1, oldValue, newValue, forceNotify)

notifyListeners(w, key, oldValue, newValue, skipRoot, skipChildren, forceNotify) ==
    LET w1 == IF ~isVirtualKey(key)
              THEN bumpVirtualKeys(w, getKeyPrefixes(key) \o <<key>>, 1)
              ELSE w
    IN IF skipRoot /\ skipChildren
       THEN IF ~forceNotify /\ isEqual(oldValue, newValue) THEN w1 ELSE invoke(w1, key)
       ELSE LET w2 == invoke(w1, key)
                w3 == IF ~skipRoot
                      THEN invokePrefixes(invoke(w2, getNamespace(key)),
                                          getKeyPrefixes(key), getNamespace(key), 1)
                      ELSE w2
            IN IF ~skipChildren
               THEN notifyChildren(w3, key, setOf(w3.desc, key), 1,
                                   oldValue, newValue, forceNotify)
               ELSE w3

-----------------------------------------------------------------------------
(* The key order records that getStableKeys leaves on the objects it is asked about *)

RECURSIVE recordAt(_, _)
\* v with getStableKeys called on the container at segments, when there is one
recordAt(v, segments) ==
    IF segments = <<>> THEN stableKeysRecorded(v)
    ELSE IF ~isContainer(v) THEN v
    ELSE IF isArray(v)
    THEN LET index == parseArrayIndex(Head(segments))
         IN IF index = -1 \/ index >= Len(v.e) THEN v
            ELSE [v EXCEPT !.e[index + 1].v = recordAt(@, Tail(segments))]
    ELSE IF hasOwn(v, Head(segments))
         THEN [v EXCEPT !.e[keyPos(v, Head(segments))].v = recordAt(@, Tail(segments))]
         ELSE v

RECURSIVE recordKeysRead(_, _, _, _, _)
\* value with getKeys (line 397) applied for every virtual child key of key, from the
\* i-th child key on; base is the path within value of the object notified about
recordKeysRead(value, base, key, childKeys, i) ==
    IF i > Len(childKeys) THEN value
    ELSE LET objectPath == objectPathOf(key, childKeys[i])
             full == IF base = <<>> THEN objectPath
                     ELSE IF objectPath = <<>> THEN base
                     ELSE base \o <<DOT>> \o objectPath
         IN recordKeysRead(
                IF isVirtualKey(childKeys[i])
                THEN recordAt(value, IF full = <<>> THEN <<>> ELSE split(full))
                ELSE value,
                base, key, childKeys, i + 1)

\* the world after notifyListeners(key, _, newValue) read the keys of newValue: when
\* newValue is the very object the store holds at key, the records land in the store
keysRecorded(w, key, newValue) ==
    LET rootKey == splitNSPath(key)[1]
        path == splitNSPath(key)[2]
    IN IF /\ mapHas(w.mem, rootKey)
          /\ isContainer(newValue)
          /\ getNestedValue(w.mem[rootKey], path) = anonymous(newValue)
       THEN [w EXCEPT !.mem = mapSet(w.mem, rootKey,
                 recordKeysRead(w.mem[rootKey], path, key, setOf(w.desc, key), 1))]
       ELSE w

-----------------------------------------------------------------------------
(* Mutators *)

produce(w, key, value, skipUpdate, memoryOnly) ==
    IF skipUpdate THEN updateSnapshot(w, key, value, memoryOnly)
    ELSE LET current == getSnapshot(w, key, memoryOnly)
             w1 == getSnapshotWorld(w, key, memoryOnly)
         IN IF isEqual(current, value) THEN w1
            ELSE keysRecorded(
                     notifyListeners(updateSnapshot(w1, key, value, memoryOnly),
                                     key, current, value, FALSE, FALSE, FALSE),
                     key, value)

\* Object.hasOwn(obj, key) of an object or an array
hasOwnKey(obj, key) ==
    IF isArray(obj)
    THEN parseArrayIndex(key) # -1 /\ parseArrayIndex(key) < Len(obj.e)
    ELSE hasOwn(obj, key)

RECURSIVE renamedEntries(_, _, _, _, _)
\* lines 534-541: the loop over keyOrder, from the i-th key on
renamedEntries(obj, keyOrder, oldKey, newKey, i) ==
    IF i > Len(keyOrder) THEN <<>>
    ELSE IF ~hasOwnKey(obj, keyOrder[i])
    THEN renamedEntries(obj, keyOrder, oldKey, newKey, i + 1)
    ELSE IF keyOrder[i] = oldKey
    THEN <<Entry(newKey, getProp(obj, oldKey))>>
             \o renamedEntries(obj, keyOrder, oldKey, newKey, i + 1)
    ELSE <<Entry(keyOrder[i], getProp(obj, keyOrder[i]))>>
             \o renamedEntries(obj, keyOrder, oldKey, newKey, i + 1)

RECURSIVE fromEntries(_, _)
\* Object.fromEntries(entries), the first i entries
fromEntries(entries, i) ==
    IF i = 0 THEN Obj(0, <<>>)
    ELSE setProp(fromEntries(entries, i - 1), entries[i].k, entries[i].v)

\* Array.from(keys), every occurrence kept
uniqueKeeping(keys) == keys

RECURSIVE unique(_)
\* Array.from(new Set(keys))
unique(keys) ==
    IF keys = <<>> THEN <<>>
    ELSE LET front == unique(SubSeq(keys, 1, Len(keys) - 1))
         IN setAdd(front, keys[Len(keys)])

\* rename without the return for oldKey === newKey
renameRebuilding(w, path, oldKey, newKey, memoryOnly) ==
    LET current == getSnapshot(w, path, memoryOnly)
        w1 == getSnapshotWorld(w, path, memoryOnly)
    IN IF ~isContainer(current)
       THEN LET next == setExternalKeyOrder(Obj(0, <<Entry(newKey, Undefined)>>), <<newKey>>)
            IN keysRecorded(
                   notifyListeners(updateSnapshot(w1, path, next, memoryOnly),
                                   path, current, next, FALSE, FALSE, FALSE),
                   path, next)
       ELSE IF ~hasOwnKey(current, oldKey) THEN w1
       ELSE LET \* the keys notifyListeners reads from the old object land on its
                \* children, which the new object shares
                obj == recordKeysRead(current, <<>>, path, setOf(w1.desc, path), 1)
                entries == renamedEntries(obj, getStableKeys(obj), oldKey, newKey, 1)
                newObject == setExternalKeyOrder(
                                 fromEntries(entries, Len(entries)),
                                 unique([i \in 1..Len(entries) |-> entries[i].k]))
            IN keysRecorded(
                   notifyListeners(updateSnapshot(w1, path, newObject, memoryOnly),
                                   path, current, newObject, FALSE, FALSE, FALSE),
                   path, newObject)

rename(w, path, oldKey, newKey, memoryOnly) ==
    LET current == getSnapshot(w, path, memoryOnly)
        w1 == getSnapshotWorld(w, path, memoryOnly)
    IN IF ~isContainer(current)
       THEN LET next == setExternalKeyOrder(Obj(0, <<Entry(newKey, Undefined)>>), <<newKey>>)
            IN keysRecorded(
                   notifyListeners(updateSnapshot(w1, path, next, memoryOnly),
                                   path, current, next, FALSE, FALSE, FALSE),
                   path, next)
       ELSE IF oldKey = newKey THEN w1
       ELSE IF ~hasOwnKey(current, oldKey) THEN w1
       ELSE LET \* the keys notifyListeners reads from the old object land on its
                \* children, which the new object shares
                obj == recordKeysRead(current, <<>>, path, setOf(w1.desc, path), 1)
                entries == renamedEntries(obj, getStableKeys(obj), oldKey, newKey, 1)
                newObject == setExternalKeyOrder(
                                 fromEntries(entries, Len(entries)),
                                 unique([i \in 1..Len(entries) |-> entries[i].k]))
            IN keysRecorded(
                   notifyListeners(updateSnapshot(w1, path, newObject, memoryOnly),
                                   path, current, newObject, FALSE, FALSE, FALSE),
                   path, newObject)

\* the message handler without its delete branch
onMessageKeeping(w, message) ==
    IF message.key = <<>> THEN w
    ELSE LET oldRootValue == kvGet(w, message.key, TRUE)
             w1 == IF message.type = "set" THEN kvSet(w, message.key, message.value, TRUE)
                   ELSE w
             newRootValue == IF message.type = "delete" THEN Undefined ELSE message.value
         IN keysRecorded(
                notifyListeners(w1, message.key, oldRootValue, newRootValue,
                                FALSE, FALSE, FALSE),
                message.key, newRootValue)

\* the message handler applying the message to the durable store
onMessageDurable(w, message) ==
    IF message.key = <<>> THEN w
    ELSE LET oldRootValue == kvGet(w, message.key, FALSE)
             w1 == IF message.type = "delete" THEN kvDelete(w, message.key, FALSE)
                   ELSE IF message.type = "set" THEN kvSet(w, message.key, message.value, FALSE)
                   ELSE w
             newRootValue == IF message.type = "delete" THEN Undefined ELSE message.value
         IN keysRecorded(
                notifyListeners(w1, message.key, oldRootValue, newRootValue,
                                FALSE, FALSE, FALSE),
                message.key, newRootValue)

\* the BroadcastChannel message handler, lines 652-668
onMessage(w, message) ==
    IF message.key = <<>> THEN w
    ELSE LET oldRootValue == kvGet(w, message.key, TRUE)
             w1 == IF message.type = "delete" THEN kvDelete(w, message.key, TRUE)
                   ELSE IF message.type = "set" THEN kvSet(w, message.key, message.value, TRUE)
                   ELSE w
             newRootValue == IF message.type = "delete" THEN Undefined ELSE message.value
         IN keysRecorded(
                notifyListeners(w1, message.key, oldRootValue, newRootValue,
                                FALSE, FALSE, FALSE),
                message.key, newRootValue)

-----------------------------------------------------------------------------
(* The tabs, before any store is created *)

Tabs == {"A", "B"}

NoCall == [obj |-> Undefined, path |-> <<>>, value |-> Undefined,
           result |-> Undefined, done |-> TRUE]

\* a record of the last operation: what was called (for a rename, value is the value
\* that was at the path), and whether the call before it was the same call
Op(op, t, key, value, skipUpdate, memoryOnly, oldKey, newKey) ==
    [op |-> op, tab |-> t, key |-> key, value |-> value, skip |-> skipUpdate,
     memoryOnly |-> memoryOnly, oldKey |-> oldKey, newKey |-> newKey,
     again |-> /\ last.op = op /\ last.tab = t /\ last.key = key /\ last.value = value
               /\ last.skip = skipUpdate /\ last.memoryOnly = memoryOnly
               /\ last.oldKey = oldKey /\ last.newKey = newKey]

NoOp == [op |-> "init", tab |-> "A", key |-> <<>>, value |-> Undefined, skip |-> FALSE,
         memoryOnly |-> TRUE, oldKey |-> <<>>, newKey |-> <<>>,
         again |-> FALSE]

InitTabs ==
    /\ inMemStorage = [t \in Tabs |-> EmptyMap]
    /\ localStorage = EmptyMap
    /\ listeners = [t \in Tabs |-> EmptyMap]
    /\ descendantListenerKeysByPrefix = [t \in Tabs |-> EmptyMap]
    /\ virtualRevisions = [t \in Tabs |-> EmptyMap]
    /\ handles = [t \in Tabs |-> {}]
    /\ channel = [t \in Tabs |-> <<>>]
    /\ concurrent = FALSE
    /\ fired = <<>>
    /\ last = NoOp
    /\ environment = "browser"

-----------------------------------------------------------------------------
(* Operations of a tab *)

MaxRevision == 2
MaxInFlight == 1
MaxHandles == 2

World(t) ==
    [mem |-> inMemStorage[t], ls |-> localStorage, posts |-> <<>>,
     lst |-> listeners[t], desc |-> descendantListenerKeysByPrefix[t],
     rev |-> virtualRevisions[t], fired |-> <<>>, env |-> environment, log |-> <<>>]

\* the operation of tab t that leaves the world w takes effect; the messages it
\* posted go to the other open tabs
CommitWithin(t, w, op, inFlight) ==
    /\ \A k \in DOMAIN w.rev : w.rev[k] <= MaxRevision
    /\ \A u \in openTabs \ {t} : Len(channel[u]) + Len(w.posts) <= inFlight
    /\ inMemStorage' = [inMemStorage EXCEPT ![t] = w.mem]
    /\ localStorage' = w.ls
    /\ listeners' = [listeners EXCEPT ![t] = w.lst]
    /\ descendantListenerKeysByPrefix' = [descendantListenerKeysByPrefix EXCEPT ![t] = w.desc]
    /\ virtualRevisions' = [virtualRevisions EXCEPT ![t] = w.rev]
    /\ channel' = [u \in Tabs |-> IF u \in openTabs \ {t} THEN channel[u] \o w.posts
                                  ELSE channel[u]]
    /\ concurrent' = (concurrent \/ (w.posts # <<>> /\ channel[t] # <<>>))
    /\ fired' = w.fired
    /\ last' = op
    /\ UNCHANGED <<nested, openTabs, environment>>

Commit(t, w, op) == CommitWithin(t, w, op, MaxInFlight)

Produce(t, key, value, skipUpdate, memoryOnly) ==
    /\ Commit(t, produce(World(t), key, value, skipUpdate, memoryOnly),
              Op("produce", t, key, value, skipUpdate, memoryOnly, <<>>, <<>>))
    /\ UNCHANGED handles

Rename(t, path, oldKey, newKey, memoryOnly) ==
    /\ Commit(t, rename(World(t), path, oldKey, newKey, memoryOnly),
              Op("rename", t, path, getSnapshot(World(t), path, memoryOnly), FALSE, memoryOnly,
                 oldKey, newKey))
    /\ UNCHANGED handles

Subscribe(t, key, listener) ==
    /\ Cardinality(handles[t] \cup {<<key, listener>>}) <= MaxHandles
    /\ Commit(t, subscribe(World(t), key, listener),
              Op("subscribe", t, <<>>, Undefined, FALSE, TRUE, <<>>, <<>>))
    /\ handles' = [handles EXCEPT ![t] = @ \cup {<<key, listener>>}]

\* a closure returned by subscribe is called (again, perhaps)
Unsubscribe(t, handle) ==
    /\ handle \in handles[t]
    /\ Commit(t, unsubscribe(World(t), handle[1], handle[2]),
              Op("unsubscribe", t, <<>>, Undefined, FALSE, TRUE, <<>>, <<>>))
    /\ UNCHANGED handles

\* tab t handles the oldest message posted to it
Deliver(t) ==
    /\ t \in openTabs
    /\ channel[t] # <<>>
    /\ \E w \in {onMessage(World(t), Head(channel[t]))} :
          /\ \A k \in DOMAIN w.rev : w.rev[k] <= MaxRevision
          /\ inMemStorage' = [inMemStorage EXCEPT ![t] = w.mem]
          /\ localStorage' = w.ls
          /\ listeners' = [listeners EXCEPT ![t] = w.lst]
          /\ descendantListenerKeysByPrefix' =
                 [descendantListenerKeysByPrefix EXCEPT ![t] = w.desc]
          /\ virtualRevisions' = [virtualRevisions EXCEPT ![t] = w.rev]
          /\ fired' = w.fired
          /\ channel' = [u \in Tabs |-> IF u = t THEN Tail(channel[t])
                                        ELSE IF u \in openTabs THEN channel[u] \o w.posts
                                        ELSE channel[u]]
    /\ last' = Op("message", t, Head(channel[t]).key, Head(channel[t]).value, FALSE, TRUE,
                  <<>>, <<>>)
    /\ UNCHANGED <<nested, handles, openTabs, concurrent, environment>>

-----------------------------------------------------------------------------
(* Spec: one tab, the durable store *)

NS == <<"n">>
Key(segments) == joinSegments(<<NS>> \o segments)

ProduceKeys == {NS, Key(<<(<<"a">>)>>), Key(<<(<<"a">>), (<<"b">>)>>),
                Key(<<(<<"a">>), (<<"b">>), (<<"c">>)>>)}

SubscribeKeys == {NS, Key(<<(<<"a">>)>>), Key(<<(<<"a">>), (<<"b">>)>>), Key(<<(<<"b">>)>>)}

ListenerIds == {"f", "g"}

ProduceValues ==
    { Undefined, Num(1),
      \* {b: 1}
      Obj(0, <<Entry(<<"b">>, Num(1))>>) }

Init ==
    /\ InitTabs
    /\ openTabs = {"A"}
    /\ nested = NoCall

Next ==
    \/ \E key \in ProduceKeys, value \in ProduceValues, skipUpdate \in BOOLEAN :
          Produce("A", key, value, skipUpdate, FALSE)
    \/ \E key \in SubscribeKeys, listener \in ListenerIds : Subscribe("A", key, listener)
    \/ \E handle \in handles["A"] : Unsubscribe("A", handle)

Spec == Init /\ [][Next]_vars

-----------------------------------------------------------------------------
(* SpecRename: one tab, renames of the keys of the value at a path of the memory store *)

RenamePaths == {NS, Key(<<(<<"o">>)>>)}

RenameKeys == {<<"a">>, <<"0">>, <<"1">>}

RenameSubscribeKeys ==
    {Key(<<(<<"o">>)>>)} \cup {joinChildKey(path, <<"a">>) : path \in RenamePaths}

RenameValues ==
    { \* {'1': 1, a: 0} with the key order [a, 1] set on it
      setExternalKeyOrder(Obj(0, <<Entry(<<"1">>, Num(1)), Entry(<<"a">>, Num(0))>>),
                          <<(<<"a">>), (<<"1">>)>>) }

NextRename ==
    \/ \E path \in RenamePaths, value \in RenameValues :
          Produce("A", path, value, FALSE, TRUE)
    \/ \E path \in RenamePaths, oldKey \in RenameKeys, newKey \in RenameKeys :
          Rename("A", path, oldKey, newKey, TRUE)
    \/ \E key \in RenameSubscribeKeys : Subscribe("A", key, "f")

SpecRename == Init /\ [][NextRename]_vars

-----------------------------------------------------------------------------
(* SpecTabs: two tabs on the durable store, joined by the BroadcastChannel *)

\* the writes a tab makes: a key and the value set at it (undefined deletes)
TabWrites(t) ==
    IF t = "A"
    THEN { <<Key(<<(<<"x">>)>>), Num(1)>>, <<Key(<<(<<"x">>)>>), Undefined>>,
           <<NS, Undefined>> }
    ELSE { <<Key(<<(<<"y">>)>>), Num(1)>>, <<Key(<<(<<"x">>)>>), Undefined>> }

TabSubscribeKeys == {NS, Key(<<(<<"x">>)>>)}

InitTabsOpen ==
    /\ InitTabs
    /\ openTabs = Tabs
    /\ nested = NoCall

NextTabs ==
    \/ \E t \in Tabs : \E write \in TabWrites(t) : Produce(t, write[1], write[2], FALSE, FALSE)
    \/ \E key \in TabSubscribeKeys : Subscribe("B", key, "f")
    \/ \E t \in Tabs : Deliver(t)

SpecTabs == InitTabsOpen /\ [][NextTabs]_vars

-----------------------------------------------------------------------------
(* SpecNested: setNestedValue and getNestedValue on their own *)

MaxPathLen == 3

\* a, b, 0, 1, 01 and the empty segment
NestedSegments == {<<"a">>, <<"b">>, <<"0">>, <<"1">>, <<"0", "1">>, <<>>}

NestedPaths ==
    {<<>>} \cup {joinSegments(f) : f \in UNION {[1..n -> NestedSegments] : n \in 1..MaxPathLen}}

NestedRoots ==
    { Undefined, Null, Num(5),
      Obj(1, <<>>),
      Arr(1, <<>>),
      \* {a: 1, b: {a: 2}}
      Obj(1, <<Entry(<<"a">>, Num(1)), Entry(<<"b">>, Obj(2, <<Entry(<<"a">>, Num(2))>>))>>),
      \* {a: {a: {}, b: [1]}, b: {}}
      Obj(1, <<Entry(<<"a">>, Obj(2, <<Entry(<<"a">>, Obj(3, <<>>)),
                                       Entry(<<"b">>, Arr(4, <<Num(1)>>))>>)),
               Entry(<<"b">>, Obj(5, <<>>))>>),
      \* [1, 2]
      Arr(1, <<Num(1), Num(2)>>),
      \* {a: [{b: 1}, {b: 2}], b: 3}
      Obj(1, <<Entry(<<"a">>, Arr(2, <<Obj(3, <<Entry(<<"b">>, Num(1))>>),
                                       Obj(4, <<Entry(<<"b">>, Num(2))>>)>>)),
               Entry(<<"b">>, Num(3))>>),
      \* [{a: 1, b: 2}, [3]] with the key order [b, a] recorded for the element
      Arr(1, <<setExternalKeyOrder(Obj(2, <<Entry(<<"a">>, Num(1)), Entry(<<"b">>, Num(2))>>),
                                   <<(<<"b">>), (<<"a">>)>>),
               Arr(3, <<Num(3)>>)>>),
      \* {0: 1, a: {1: {}, b: null}} 
      Obj(1, <<Entry(<<"0">>, Num(1)),
               Entry(<<"a">>, Obj(2, <<Entry(<<"1">>, Obj(3, <<>>)), Entry(<<"b">>, Null)>>))>>),
      \* {b: {a: 1, b: 2}, a: 3} with the key orders [b, a] recorded
      setExternalKeyOrder(
          Obj(1, <<Entry(<<"b">>,
                         setExternalKeyOrder(Obj(2, <<Entry(<<"a">>, Num(1)), Entry(<<"b">>, Num(2))>>),
                                             <<(<<"b">>), (<<"a">>)>>)),
                   Entry(<<"a">>, Num(3))>>),
          <<(<<"b">>), (<<"a">>)>>) }

NestedValues ==
    { Undefined, Null, Num(7), Obj(9, <<>>), Arr(9, <<Num(7)>>),
      Obj(8, <<Entry(<<"a">>, Num(1))>>) }

InitNested ==
    /\ nested \in [obj : NestedRoots, path : NestedPaths, value : NestedValues,
                   result : {Undefined}, done : {FALSE}]
    /\ InitTabs
    /\ openTabs = {}

SetNested ==
    /\ ~nested.done
    /\ nested' = [nested EXCEPT !.result = setNestedValue(nested.obj, nested.path, nested.value),
                                !.done = TRUE]
    /\ UNCHANGED <<inMemStorage, localStorage, listeners, descendantListenerKeysByPrefix,
                   virtualRevisions, handles, channel, openTabs, concurrent, fired, last,
                   environment>>

NextNested == SetNested

SpecNested == InitNested /\ [][NextNested]_vars

-----------------------------------------------------------------------------
(* Claims about setNestedValue and getNestedValue (SpecNested) *)

\* the path made of the first k segments of path
prefixPath(path, k) == joinSegments(SubSeq(split(path), 1, k))

RECURSIVE arraysIndexed(_, _)
\* walking segments from current, every array met is addressed by an index
arraysIndexed(current, segments) ==
    IF segments = <<>> \/ ~isContainer(current) THEN TRUE
    ELSE IF isArray(current)
    THEN /\ parseArrayIndex(Head(segments)) # -1
         /\ arraysIndexed(getIndex(current, parseArrayIndex(Head(segments))), Tail(segments))
    ELSE arraysIndexed(getProp(current, Head(segments)), Tail(segments))

\* the path addresses an element of an array of obj that has elements after it
addressesInnerElement(obj, path) ==
    LET segments == split(path)
        parent == getNestedValue(obj, prefixPath(path, Len(segments) - 1))
        index == parseArrayIndex(segments[Len(segments)])
    IN /\ path # <<>>
       /\ isArray(parent)
       /\ index # -1
       /\ index + 1 < Len(parent.e)

RoundTripHolds ==
    isEqual(getNestedValue(nested.result, nested.path), nested.value)

\* C7 as claimed: for all root, path and value, getNestedValue(setNestedValue(root, path,
\* value), path) deep-equals value (undefined for a delete), for object and array
\* containers and for scalar roots alike.
C7_RoundTrip == nested.done => RoundTripHolds

\* C7 as amended: the round trip holds when root is null, undefined, an object or an
\* array (or the path is empty), every array of root met along the path is addressed by
\* an index segment, and a delete does not address an array element that has elements
\* after it.
C7_RoundTripAddressable ==
    ( /\ nested.done
      /\ nested.path = <<>> \/ isNullish(nested.obj) \/ isContainer(nested.obj)
      /\ arraysIndexed(nested.obj, split(nested.path))
      /\ ~(nested.value.t = "undefined" /\ addressesInnerElement(nested.obj, nested.path)) )
    => RoundTripHolds

\* C7 witness: a defined value was set two levels below an array of a container root
C7_Witness ==
    /\ nested.done
    /\ isContainer(nested.obj)
    /\ Len(split(nested.path)) = 3
    /\ isArray(getNestedValue(nested.obj, prefixPath(nested.path, 1)))
    /\ arraysIndexed(nested.obj, split(nested.path))
    /\ nested.value.t = "object"
    /\ nested.result # nested.obj
    /\ RoundTripHolds

RECURSIVE identities(_)
\* the identities of the containers in v
identities(v) ==
    (IF isContainer(v) THEN {v.id} ELSE {}) \cup UNION {identities(v.e[i].v) : i \in 1..Len(v.e)}

\* the container of obj at the first k segments of the path is copied afresh in result
freshCopyAt(k) ==
    LET old == getNestedValue(nested.obj, prefixPath(nested.path, k))
        new == getNestedValue(nested.result, prefixPath(nested.path, k))
    IN isContainer(old) =>
          /\ new.t = old.t
          /\ new.id \notin identities(nested.obj) \cup identities(nested.value)

\* the branches of the container of obj at the first k segments that the path does not
\* go through are the same references in result (an array element after a spliced
\* index is found one place earlier)
siblingsSharedAt(k) ==
    LET segments == split(nested.path)
        old == getNestedValue(nested.obj, prefixPath(nested.path, k))
        new == getNestedValue(nested.result, prefixPath(nested.path, k))
    IN isContainer(old) =>
          IF isArray(old)
          THEN \A i \in 1..Len(old.e) :
                  i - 1 # parseArrayIndex(segments[k + 1]) =>
                     \E j \in {i - 1, i} : j \in 1..Len(new.e) /\ new.e[j].v = old.e[i].v
          ELSE \A i \in 1..Len(old.e) :
                  old.e[i].k # segments[k + 1] =>
                     /\ hasOwn(new, old.e[i].k)
                     /\ getProp(new, old.e[i].k) = old.e[i].v

\* C8 as claimed: every container on the path from root to the target is a fresh shallow
\* copy, and every sibling branch not on that path keeps reference identity with the
\* corresponding branch of the original root.
C8_StructuralSharing ==
    (nested.done /\ nested.path # <<>>) =>
        \A k \in 0..(Len(split(nested.path)) - 1) : freshCopyAt(k) /\ siblingsSharedAt(k)

-----------------------------------------------------------------------------
(* Claims about produce and the listeners (Spec) *)

\* store.get(key) in tab t
valueAt(t, key) == kvGet(World(t), key, FALSE)

\* the (key, listener) pairs registered in tab t
registered(t) ==
    UNION { {<<key, listeners[t][key][i]>> : i \in 1..Len(listeners[t][key])} :
            key \in DOMAIN listeners[t] }

\* how many times the last operation invoked the listener at the key
invocations(key, listener) ==
    Cardinality({i \in 1..Len(fired) : fired[i] = [key |-> key, l |-> listener]})

\* q is the namespace or an intermediate prefix of key
isAncestorKey(q, key) ==
    /\ Len(q) < Len(key)
    /\ SubSeq(key, 1, Len(q)) = q
    /\ key[Len(q) + 1] = DOT

\* C1: a produce that repeats the call before it (same key, same value, notifications
\* not skipped, nothing in between) invokes no listener: the value it writes deep-equals
\* the current one
C1_IdempotentWrite ==
    (last.op = "produce" /\ ~last.skip /\ last.again) => fired = <<>>

\* C2: a produce that does not skip notifications invokes, at least once, every listener
\* registered at a key whose value differs before and after the call
C2_ChangedListenersInvoked ==
    [][(last'.op = "produce" /\ ~last'.skip) =>
          \A h \in registered("A") :
              ~isEqual(valueAt("A", h[1]), valueAt("A", h[1])') =>
                  invocations(h[1], h[2])' >= 1]_vars

\* C3: a produce at key K invokes a listener at Q only if Q is K, Q is an ancestor
\* prefix of K, or Q is a descendant of K whose value changed
C3_ListenerMinimality ==
    [][(last'.op = "produce" /\ ~last'.skip) =>
          \A q \in {fired'[i].key : i \in 1..Len(fired')}, k \in {last'.key} :
              \/ q = k
              \/ isAncestorKey(q, k)
              \/ /\ isAncestorKey(k, q)
                 /\ ~isEqual(valueAt("A", q), valueAt("A", q)')]_vars

\* C4: a registered listener is invoked exactly once by a set that changes the value at
\* its key; a listener that is not registered (its handle was called) is not invoked;
\* calling a handle removes at most its own registration
C4_ExactlyOncePerChange ==
    [][/\ (last'.op = "produce" /\ ~last'.skip) =>
             \A h \in registered("A") :
                 ~isEqual(valueAt("A", h[1]), valueAt("A", h[1])') =>
                     invocations(h[1], h[2])' = 1
       /\ \A i \in 1..Len(fired') : <<fired'[i].key, fired'[i].l>> \in registered("A")'
       /\ last'.op = "unsubscribe" =>
             /\ registered("A")' \subseteq registered("A")
             /\ Cardinality(registered("A") \ registered("A")') <= 1]_vars

-----------------------------------------------------------------------------
(* Claims about the tabs (SpecTabs) *)

\* no message is in flight
quiescent == \A t \in Tabs : channel[t] = <<>>

\* every tab reads the same value of the namespace
tabsAgree == \A t \in Tabs, u \in Tabs : isEqual(valueAt(t, NS), valueAt(u, NS))

\* C5: once every posted message is delivered, all tabs read the same value of the
\* namespace, also when two tabs wrote it concurrently
C5_EventualConsistency == quiescent => tabsAgree

\* C5, amended: once every posted message is delivered, all tabs read the same value of
\* the namespace, provided no tab wrote while a message posted to it was not yet handled
C5_ConsistencyOfSerialWrites == (quiescent /\ ~concurrent) => tabsAgree

\* both tabs wrote a key, one after handling the other's message, and all is delivered
C5_Witness ==
    /\ quiescent
    /\ ~concurrent
    /\ last.op = "message"
    /\ \A t \in Tabs :
          /\ mapHas(inMemStorage[t], NS)
          /\ isEqual(valueAt(t, Key(<<(<<"x">>)>>)), Num(1))
          /\ isEqual(valueAt(t, Key(<<(<<"y">>)>>)), Num(1))

\* C6: a set message for the namespace handled by a tab whose cache has no entry for it
\* leaves get(ns) equal to the message's value, and invokes exactly once every listener
\* at ns and at a descendant of ns whose value became defined
C6_ReplayOnEmptyMirror ==
    [][\A t \in Tabs :
          (last'.op = "message" /\ last'.tab = t /\ channel[t] # <<>>) =>
              \A m \in {Head(channel[t])} :
                  (m.type = "set" /\ ~mapHas(inMemStorage[t], m.key)) =>
                      /\ isEqual(valueAt(t, m.key)', m.value)
                      /\ \A h \in registered(t) :
                            (\/ h[1] = m.key
                             \/ /\ isAncestorKey(m.key, h[1])
                                /\ ~isNullish(valueAt(t, h[1])')) =>
                                invocations(h[1], h[2])' = 1]_vars

-----------------------------------------------------------------------------
(* Claims about rename (SpecRename) *)

\* memoryStore.get(key) in tab t
memoryValueAt(t, key) == kvGet(World(t), key, TRUE)

\* keys with oldKey replaced by newKey where it stands
replaceKey(keys, oldKey, newKey) ==
    [i \in 1..Len(keys) |-> IF keys[i] = oldKey THEN newKey ELSE keys[i]]

\* the last operation renamed a key that the plain object at the path had
renamedPresentKey ==
    /\ last.op = "rename"
    /\ isRecord(last.value)
    /\ hasOwn(last.value, last.oldKey)

\* the object at the path has the keys of the old one in their order, oldKey replaced
\* by newKey, each with the value it had; renaming back gives the old keys and value
orderPreserved ==
    LET K == getStableKeys(last.value)
        expected == replaceKey(K, last.oldKey, last.newKey)
        object == memoryValueAt("A", last.key)
        back == kvGet(rename(World("A"), last.key, last.newKey, last.oldKey, TRUE),
                      last.key, TRUE)
    IN /\ getStableKeys(object) = expected
       /\ \A i \in 1..Len(K) : isEqual(getProp(object, expected[i]), getProp(last.value, K[i]))
       /\ getStableKeys(back) = K
       /\ isEqual(back, last.value)

\* C9: renaming a present key of an object yields its ordered keys with oldKey replaced
\* by newKey at the same position and the same value under every key, and renaming back
\* restores the order and the value
C9_RenamePreservesOrder == renamedPresentKey => orderPreserved

\* C9, amended: the same, when newKey is not already a key of the object
C9_RenamePreservesOrderOfNewKey ==
    (renamedPresentKey /\ (last.newKey = last.oldKey \/ ~hasOwn(last.value, last.newKey)))
        => orderPreserved

\* a key of a two-key object was renamed to a new name, and the order of the renamed
\* object is not the native order of its keys
C9_Witness ==
    /\ renamedPresentKey
    /\ last.newKey # last.oldKey
    /\ ~hasOwn(last.value, last.newKey)
    /\ Len(getStableKeys(last.value)) >= 2
    /\ hasOwn(memoryValueAt("A", last.key), last.newKey)
    /\ getStableKeys(memoryValueAt("A", last.key)) # objectKeys(memoryValueAt("A", last.key))

\* C10: a rename of a present key to another name invokes the listeners at path.oldKey
\* (when the old value was defined), at path.newKey and at path
C10_RenameNotifies ==
    (renamedPresentKey /\ last.newKey # last.oldKey) =>
        \A h \in registered("A") :
            (\/ h[1] = last.key
             \/ h[1] = joinChildKey(last.key, last.newKey)
             \/ /\ h[1] = joinChildKey(last.key, last.oldKey)
                /\ getProp(last.value, last.oldKey) # Undefined) =>
                invocations(h[1], h[2]) >= 1

-----------------------------------------------------------------------------
(* SpecKeys: one tab, the memory store, subscribers of the key-set signals *)

\* StoreRoot.notify(path)
notify(w, namespace, path, memoryOnly) ==
    LET value == getNestedValue(getSnapshot(w, namespace, memoryOnly), path)
    IN notifyListeners(getSnapshotWorld(w, namespace, memoryOnly),
                       joinPath(namespace, path), value, value, TRUE, TRUE, TRUE)

Notify(t, namespace, path, memoryOnly) ==
    /\ Commit(t, notify(World(t), namespace, path, memoryOnly),
              Op("notify", t, joinPath(namespace, path), Undefined, FALSE, memoryOnly,
                 <<>>, <<>>))
    /\ UNCHANGED handles

\* createKeysNode: signalPath
keysSignal(path) == joinChildKey(path, <<KEYS_MARK>>)

KeysProduceKeys == {NS, Key(<<(<<"a">>)>>), Key(<<(<<"a">>), (<<"b">>)>>)}

KeysValues == {Undefined, Num(1), Obj(0, <<Entry(<<"b">>, Num(1))>>)}

\* the paths whose key-set signal is subscribed to
KeysPaths == {NS, Key(<<(<<"a">>)>>)}

KeysNotifyPaths == {<<>>, <<"a">>, joinSegments(<<(<<"a">>), (<<"b">>)>>)}

NextKeys ==
    \/ \E key \in KeysProduceKeys, value \in KeysValues : Produce("A", key, value, FALSE, TRUE)
    \/ \E path \in KeysPaths : Subscribe("A", keysSignal(path), "f")
    \/ \E path \in KeysNotifyPaths : Notify("A", NS, path, TRUE)

SpecKeys == Init /\ [][NextKeys]_vars

-----------------------------------------------------------------------------
(* Claims about the key-set signal (SpecKeys) *)

\* the keys of the mapping at the key in tab t
keySetAt(t, key) ==
    LET value == memoryValueAt(t, key)
    IN IF isRecord(value) THEN {value.e[i].k : i \in 1..Len(value.e)} ELSE {}

revisionOf(t, key) ==
    IF mapHas(virtualRevisions[t], key) THEN virtualRevisions[t][key] ELSE 0

\* C11: with a subscriber of the key-set signal of a path, a produce that adds or
\* removes a key of the mapping at the path increments the revision of the signal and
\* invokes the subscriber; a produce or a manual notify at or under the path that adds
\* and removes no key of it leaves the revision alone and invokes no subscriber of it
C11_KeysSignalOnStructuralChange ==
    [][\A path \in KeysPaths :
          (/\ mapHas(listeners["A"], keysSignal(path))
           /\ last'.op \in {"produce", "notify"}) =>
              /\ (keySetAt("A", path) # keySetAt("A", path)') =>
                    /\ revisionOf("A", keysSignal(path))' > revisionOf("A", keysSignal(path))
                    /\ \E i \in 1..Len(fired') : fired'[i].key = keysSignal(path)
              /\ (/\ keySetAt("A", path) = keySetAt("A", path)'
                  /\ \A key \in {last'.key} : key = path \/ isAncestorKey(path, key)) =>
                    /\ revisionOf("A", keysSignal(path))' = revisionOf("A", keysSignal(path))
                    /\ \A i \in 1..Len(fired') : fired'[i].key # keysSignal(path)]_vars

-----------------------------------------------------------------------------
(* SpecStop: one tab, the memory store, listeners that unsubscribe themselves *)

StopKeys == {NS, Key(<<(<<"a">>)>>)}

StopListeners == {"f"} \cup SelfStopping

StopValues == {Undefined, Num(1), Num(2)}

NextStop ==
    \/ \E key \in StopKeys, value \in StopValues : Produce("A", key, value, FALSE, TRUE)
    \/ \E key \in StopKeys, listener \in StopListeners : Subscribe("A", key, listener)
    \/ \E handle \in handles["A"] : Unsubscribe("A", handle)

SpecStop == Init /\ [][NextStop]_vars

-----------------------------------------------------------------------------
(* Claims about unsubscribing from inside a listener (SpecStop) *)

\* C12: a listener that calls its unsubscribe handle when it is invoked is invoked at
\* most once by an operation, also when the pass visits its key as exact match and as
\* namespace root, is registered no more after the operation that invoked it, and is
\* invoked by no operation before which it is not registered
C12_UnsubscribeInsideListener ==
    [][\A key \in StopKeys, listener \in SelfStopping :
          /\ invocations(key, listener)' <= 1
          /\ invocations(key, listener)' >= 1 => <<key, listener>> \notin registered("A")'
          /\ <<key, listener>> \notin registered("A") => invocations(key, listener)' = 0]_vars

\* a write of the namespace invoked the self-unsubscribing listener at the namespace
\* once, in a pass that invoked the plain listener beside it twice
C12_Witness ==
    /\ last.op = "produce"
    /\ last.key = NS
    /\ invocations(NS, "s") = 1
    /\ invocations(NS, "f") = 2
    /\ <<NS, "s">> \notin registered("A")

-----------------------------------------------------------------------------
(* SpecReset: one tab, both store instances, over what an earlier page load persisted *)

\* KVStore.reset; the reset message carries no key, modelled as the empty key
kvReset(w, memoryOnly) ==
    [w EXCEPT !.ls = IF memoryOnly \/ ~hasWindow(w) \/ w.env = "throwing" THEN w.ls
                     ELSE [k \in (DOMAIN w.ls) \ (DOMAIN w.mem) |-> w.ls[k]],
              !.mem = EmptyMap,
              !.posts = IF hasWindow(w) THEN Append(w.posts, Message("reset", <<>>, Undefined))
                        ELSE w.posts]

testReset(w) == kvReset(kvReset(w, FALSE), TRUE)

TestReset(t) ==
    /\ Commit(t, testReset(World(t)),
              Op("testReset", t, <<>>, Undefined, FALSE, FALSE, <<>>, <<>>))
    /\ UNCHANGED handles

\* {x: 1}, persisted under the namespace by an earlier page load
Persisted == Obj(0, <<Entry(<<"x">>, Num(1))>>)

InitStored ==
    /\ inMemStorage = [t \in Tabs |-> EmptyMap]
    /\ localStorage \in {EmptyMap, mapSet(EmptyMap, NS, Persisted)}
    /\ listeners = [t \in Tabs |-> EmptyMap]
    /\ descendantListenerKeysByPrefix = [t \in Tabs |-> EmptyMap]
    /\ virtualRevisions = [t \in Tabs |-> EmptyMap]
    /\ handles = [t \in Tabs |-> {}]
    /\ channel = [t \in Tabs |-> <<>>]
    /\ concurrent = FALSE
    /\ fired = <<>>
    /\ last = NoOp
    /\ environment = "browser"
    /\ openTabs = {"A"}
    /\ nested = NoCall

ResetKeys == {NS, Key(<<(<<"x">>)>>), Key(<<(<<"y">>)>>)}

ResetValues == {Undefined, Num(1), Num(2)}

NextReset ==
    \/ \E key \in ResetKeys, value \in ResetValues, memoryOnly \in BOOLEAN :
          Produce("A", key, value, FALSE, memoryOnly)
    \/ \E key \in ResetKeys : Subscribe("A", key, "f")
    \/ TestReset("A")

SpecReset == InitStored /\ [][NextReset]_vars

-----------------------------------------------------------------------------
(* Claims about reset (SpecReset) *)

\* C13: after a reset, the namespace reads undefined and no listener registered under
\* the namespace before the reset is still in the registry
C13_ResetClearsBothLayers ==
    last.op = "testReset" =>
        /\ valueAt("A", NS) = Undefined
        /\ \A h \in registered("A") : ~(h[1] = NS \/ isAncestorKey(NS, h[1]))

-----------------------------------------------------------------------------
(* SpecChannel: tab A writes through both store instances, tab B listens to the
   channel, which also carries messages of pages running other versions *)

Reset(t, memoryOnly) ==
    /\ Commit(t, kvReset(World(t), memoryOnly),
              Op("reset", t, <<>>, Undefined, FALSE, memoryOnly, <<>>, <<>>))
    /\ UNCHANGED handles

\* a page of another version posts a message that reaches tab t
Foreign(t, message) ==
    /\ t \in openTabs
    /\ Len(channel[t]) < MaxInFlight
    /\ channel' = [channel EXCEPT ![t] = Append(@, message)]
    /\ fired' = <<>>
    /\ last' = Op("foreign", t, message.key, message.value, FALSE, TRUE, <<>>, <<>>)
    /\ UNCHANGED <<nested, inMemStorage, localStorage, listeners,
                   descendantListenerKeysByPrefix, virtualRevisions, handles, openTabs,
                   concurrent, environment>>

\* the types of the wire format
MessageTypes == {"set", "delete", "reset"}

\* messages other pages may post: one of a type unknown here, one without a key
ForeignMessages ==
    {Message("later", NS, Num(2)), Message("set", <<>>, Num(2))}

InitChannel ==
    /\ inMemStorage = [t \in Tabs |-> EmptyMap]
    /\ localStorage \in {EmptyMap, mapSet(EmptyMap, NS, Persisted)}
    /\ listeners = [t \in Tabs |-> EmptyMap]
    /\ descendantListenerKeysByPrefix = [t \in Tabs |-> EmptyMap]
    /\ virtualRevisions = [t \in Tabs |-> EmptyMap]
    /\ handles = [t \in Tabs |-> {}]
    /\ channel = [t \in Tabs |-> <<>>]
    /\ concurrent = FALSE
    /\ fired = <<>>
    /\ last = NoOp
    /\ environment = "browser"
    /\ openTabs = Tabs
    /\ nested = NoCall

ChannelKeys == {NS, Key(<<(<<"x">>)>>), Key(<<(<<"y">>)>>)}

ChannelValues == {Undefined, Num(1)}

NextChannel ==
    \/ \E key \in ChannelKeys, value \in ChannelValues, skipUpdate \in BOOLEAN,
          memoryOnly \in BOOLEAN : Produce("A", key, value, skipUpdate, memoryOnly)
    \/ \E memoryOnly \in BOOLEAN : Reset("A", memoryOnly)
    \/ Subscribe("B", NS, "f")
    \/ \E message \in ForeignMessages : Foreign("B", message)
    \/ Deliver("B")

SpecChannel == InitChannel /\ [][NextChannel]_vars

-----------------------------------------------------------------------------
(* Claims about the two store instances and the channel (SpecChannel) *)

\* the world of tab t with nothing in the durable medium
WorldUnstored(t) == [World(t) EXCEPT !.ls = EmptyMap]

\* C14: a write or a reset through the memory-only instance leaves the durable medium
\* as it is, posts no message, and leaves the memory the same operation leaves when
\* the durable medium is empty (it read nothing from it)
C14_MemoryOnlyIsolated ==
    [][(last'.tab = "A" /\ last'.memoryOnly /\ last'.op \in {"produce", "reset"}) =>
          /\ localStorage' = localStorage
          /\ channel' = channel
          /\ \A key \in {last'.key}, value \in {last'.value}, skipUpdate \in {last'.skip} :
                last'.op = "produce" =>
                    inMemStorage'["A"] =
                        produce(WorldUnstored("A"), key, value, skipUpdate, TRUE).mem]_vars

-----------------------------------------------------------------------------
(* SpecStore: one tab, a durable store created over its defaults and an atom *)

\* String(i) of an array index below ten
indexKey(i) == <<(<<"0", "1", "2", "3", "4", "5", "6", "7", "8", "9">>)[i + 1]>>

\* the own enumerable properties an object spread copies from a value
ownEntries(v) ==
    IF isArray(v) THEN [i \in 1..Len(v.e) |-> Entry(indexKey(i - 1), v.e[i].v)]
    ELSE IF isContainer(v) THEN v.e
    ELSE <<>>

\* { ...existing, ...defaultValue }: the defaults laid over what is there
spreadOver(defaultValue, existing) ==
    LET entries == ownEntries(existing) \o ownEntries(defaultValue)
    IN fromEntries(entries, Len(entries))

\* { ...defaultValue, ...existing }
spread(defaultValue, existing) ==
    LET entries == ownEntries(defaultValue) \o ownEntries(existing)
    IN fromEntries(entries, Len(entries))

createStoreRoot(w, namespace, defaultValue, memoryOnly) ==
    produce(getSnapshotWorld(w, namespace, memoryOnly), namespace,
            spread(defaultValue,
                   coalesce(getSnapshot(w, namespace, memoryOnly), Obj(0, <<>>))),
            TRUE, TRUE)

\* StoreRoot.reset(path) deleting the value at the path
storeResetDeleting(w, namespace, defaultValue, path, memoryOnly) ==
    produce(w, joinPath(namespace, path), Undefined, FALSE, memoryOnly)

\* StoreRoot.reset(path)
storeReset(w, namespace, defaultValue, path, memoryOnly) ==
    produce(w, joinPath(namespace, path), getNestedValue(defaultValue, path),
            FALSE, memoryOnly)

setAtom(w, key, value, memoryOnly) == updateSnapshot(w, key, value, memoryOnly)

createAtom(w, key, defaultValue, memoryOnly) ==
    IF getSnapshot(w, key, memoryOnly) = Undefined
    THEN setAtom(getSnapshotWorld(w, key, memoryOnly), key, defaultValue, memoryOnly)
    ELSE getSnapshotWorld(w, key, memoryOnly)

\* {a: {b: 1}, x: 2}
StoreDefault ==
    Obj(0, <<Entry(<<"a">>, Obj(0, <<Entry(<<"b">>, Num(1))>>)), Entry(<<"x">>, Num(2))>>)

AtomKey == <<"atom:t">>
AtomDefault == Num(1)

\* the store and the atom exist once their creation ran, which is the first step
created == last.op # "init"

CreateStore(t) ==
    /\ Commit(t, createAtom(createStoreRoot(World(t), NS, StoreDefault, FALSE),
                            AtomKey, AtomDefault, TRUE),
              Op("createStore", t, NS, getSnapshot(World(t), NS, FALSE), TRUE, FALSE,
                 <<>>, <<>>))
    /\ UNCHANGED handles

StoreSet(t, path, value) ==
    /\ created
    /\ Produce(t, joinPath(NS, path), value, FALSE, FALSE)

StoreReset(t, path) ==
    /\ created
    /\ Commit(t, storeReset(World(t), NS, StoreDefault, path, FALSE),
              Op("storeReset", t, joinPath(NS, path),
                 getSnapshot(World(t), joinPath(NS, path), FALSE), FALSE, FALSE, <<>>, <<>>))
    /\ UNCHANGED handles

AtomSet(t, value) ==
    /\ created
    /\ Commit(t, setAtom(World(t), AtomKey, value, TRUE),
              Op("atomSet", t, AtomKey, value, FALSE, TRUE, <<>>, <<>>))
    /\ UNCHANGED handles

AtomReset(t) ==
    /\ created
    /\ Commit(t, setAtom(World(t), AtomKey, AtomDefault, TRUE),
              Op("atomReset", t, AtomKey, getSnapshot(World(t), AtomKey, TRUE), FALSE, TRUE,
                 <<>>, <<>>))
    /\ UNCHANGED handles

StorePaths == {<<>>, <<"a">>, joinSegments(<<(<<"a">>), (<<"b">>)>>), <<"x">>}

\* the values set at a path: values of the type the defaults give the path, or undefined
StoreValues(path) ==
    {Undefined} \cup
    (IF path = <<"a">> THEN {Obj(0, <<Entry(<<"b">>, Num(2))>>), Obj(0, <<>>)}
     ELSE IF path = <<>> THEN {}
     ELSE {Num(3)})

NextStore ==
    \/ CreateStore("A")
    \/ \E path \in StorePaths : \E value \in StoreValues(path) : StoreSet("A", path, value)
    \/ \E path \in StorePaths : StoreReset("A", path)
    \/ \E value \in {Num(3), Undefined} : AtomSet("A", value)
    \/ AtomReset("A")

SpecStore == InitStored /\ [][NextStore]_vars

-----------------------------------------------------------------------------
(* Claims about the store root and the atom (SpecStore) *)

topKeys(value) == IF isRecord(value) THEN {value.e[i].k : i \in 1..Len(value.e)} ELSE {}

\* C16: creating a store leaves a root whose keys are the keys already present and the
\* keys of the defaults; every key already present keeps its value, every other key
\* takes its default
C16_CreateMergesDefaults ==
    [][last'.op = "createStore" =>
          /\ isRecord(valueAt("A", NS)')
          /\ topKeys(valueAt("A", NS)') = topKeys(valueAt("A", NS)) \cup topKeys(StoreDefault)
          /\ \A k \in topKeys(valueAt("A", NS)) :
                getProp(valueAt("A", NS)', k) = getProp(valueAt("A", NS), k)
          /\ \A k \in topKeys(StoreDefault) \ topKeys(valueAt("A", NS)) :
                getProp(valueAt("A", NS)', k) = getProp(StoreDefault, k)]_vars

\* a store was created over a root that held another value than the default under x
\* and nothing under a
C16_Witness ==
    /\ last.op = "createStore"
    /\ isRecord(last.value)
    /\ hasOwn(last.value, <<"x">>)
    /\ getProp(last.value, <<"x">>) # getProp(StoreDefault, <<"x">>)
    /\ ~hasOwn(last.value, <<"a">>)
    /\ getProp(valueAt("A", NS), <<"x">>) = getProp(last.value, <<"x">>)
    /\ getProp(valueAt("A", NS), <<"a">>) = getProp(StoreDefault, <<"a">>)

-----------------------------------------------------------------------------
(* Claims about array indexes in paths (SpecNested) *)

\* the segments of the model that are canonical non-negative integers
CanonicalIndexes == {<<"0">>, <<"1">>}

\* the path a.b. and the root it gives when {} is set at it on {}: {a: {b: {'': {}}}}
EmptySegmentPath == <<"a", ".", "b", ".">>
EmptySegmentRoot ==
    Obj(0, <<Entry(<<"a">>, Obj(0, <<Entry(<<"b">>, Obj(0, <<Entry(<<>>, Obj(0, <<>>))>>))>>))>>)

emptySegmentCall ==
    /\ nested.done
    /\ nested.obj = Obj(1, <<>>)
    /\ nested.path = EmptySegmentPath
    /\ nested.value = Obj(9, <<>>)

\* C17: a container setNestedValue creates along the path is an array exactly when the
\* segment after it is a canonical non-negative integer; the empty segment read on an
\* array gives undefined, never element 0; setting {} at a.b. on {} gives
\* {a: {b: {'': {}}}} with an object at b, and reading a.b. returns the value set
C17_CanonicalIndexSegments ==
    nested.done =>
        LET segments == split(nested.path)
        IN /\ (isNullish(nested.obj) \/ isContainer(nested.obj)) =>
                  \A i \in 1..(Len(segments) - 1) :
                      (/\ ~isContainer(getNestedRec(nested.obj, SubSeq(segments, 1, i)))
                       /\ isContainer(getNestedRec(nested.result, SubSeq(segments, 1, i)))) =>
                          (isArray(getNestedRec(nested.result, SubSeq(segments, 1, i)))
                              <=> segments[i + 1] \in CanonicalIndexes)
           /\ \A i \in 1..Len(segments) :
                  (/\ nested.path # <<>>
                   /\ segments[i] = <<>>
                   /\ isArray(getNestedRec(nested.result, SubSeq(segments, 1, i - 1)))) =>
                      getNestedRec(nested.result, SubSeq(segments, 1, i)) = Undefined
           /\ emptySegmentCall =>
                  /\ anonymous(nested.result) = EmptySegmentRoot
                  /\ isRecord(getNestedValue(nested.result, <<"a", ".", "b">>))
                  /\ getNestedValue(nested.result, nested.path) = nested.value

\* {} was set at a.b. on {} and the result holds it under the key '' of the object at b
C17_Witness ==
    /\ emptySegmentCall
    /\ hasOwn(getNestedValue(nested.result, <<"a", ".", "b">>), <<>>)
    /\ getNestedValue(nested.result, nested.path) = nested.value

-----------------------------------------------------------------------------
(* SpecOrder: one tab, the memory store, sets, deletes and renames of the keys of the
   namespace and reads of its ordered keys *)

\* createKeysNode.computeKeys: getStableKeys on the value at the key, which leaves its
\* record on the object the store holds
computeKeys(w, key, memoryOnly) ==
    LET rootKey == splitNSPath(key)[1]
        path == splitNSPath(key)[2]
        w1 == getSnapshotWorld(w, key, memoryOnly)
    IN IF mapHas(w1.mem, rootKey)
       THEN [w1 EXCEPT !.mem = mapSet(w1.mem, rootKey,
                recordAt(w1.mem[rootKey], IF path = <<>> THEN <<>> ELSE split(path)))]
       ELSE w1

ComputeKeys(t, key, memoryOnly) ==
    /\ Commit(t, computeKeys(World(t), key, memoryOnly),
              Op("keys", t, key, Undefined, FALSE, memoryOnly, <<>>, <<>>))
    /\ UNCHANGED handles

OrderKeys == {<<"a">>, <<"b">>, <<"1">>}

OrderValues == {Undefined, Num(1)}

OrderPaths == {NS, Key(<<(<<"a">>)>>)}

NextOrder ==
    \/ \E k \in OrderKeys, value \in OrderValues :
          Produce("A", joinChildKey(NS, k), value, FALSE, TRUE)
    \/ \E path \in OrderPaths, oldKey \in OrderKeys, newKey \in OrderKeys :
          Rename("A", path, oldKey, newKey, TRUE)
    \/ \E path \in OrderPaths : ComputeKeys("A", path, TRUE)

SpecOrder == Init /\ [][NextOrder]_vars

-----------------------------------------------------------------------------
(* Claims about the ordered keys (SpecOrder) *)

RECURSIVE mappingsOf(_)
\* the mappings in a value, itself included
mappingsOf(v) ==
    (IF isRecord(v) THEN {v} ELSE {}) \cup UNION {mappingsOf(v.e[i].v) : i \in 1..Len(v.e)}

\* keys holds every key of the mapping exactly once
isPermutationOfKeys(keys, mapping) ==
    /\ Len(keys) = Len(mapping.e)
    /\ \A i \in 1..Len(mapping.e) : \E j \in 1..Len(keys) : keys[j] = mapping.e[i].k

\* C18: for every mapping in the store, getStableKeys returns each present key exactly
\* once, and a second call, on the mapping as the first call left it, returns the same
\* sequence
C18_OrderedKeysPermutation ==
    \A mapping \in mappingsOf(memoryValueAt("A", NS)) :
        /\ isPermutationOfKeys(getStableKeys(mapping), mapping)
        /\ getStableKeys(stableKeysRecorded(mapping)) = getStableKeys(mapping)

\* a rename of a present key of the namespace to a new name left a mapping of two keys
\* or more whose ordered keys are not in the native order
C18_Witness ==
    /\ last.op = "rename"
    /\ last.key = NS
    /\ isRecord(last.value)
    /\ hasOwn(last.value, last.oldKey)
    /\ ~hasOwn(last.value, last.newKey)
    /\ Len(memoryValueAt("A", NS).e) >= 2
    /\ getStableKeys(memoryValueAt("A", NS)) # objectKeys(memoryValueAt("A", NS))
    /\ isPermutationOfKeys(getStableKeys(memoryValueAt("A", NS)), memoryValueAt("A", NS))

\* the messages the step posted to tab B
postedToB == SubSeq(channel["B"]', Len(channel["B"]) + 1, Len(channel["B"]'))

\* C19: a set, a delete and a reset through the durable instance each post one message
\* whose key is the namespace: type set with the new root value for a set, type delete
\* (or set with the new root value, for a nested key) for a delete, unless the delete
\* found nothing to delete, and type reset for a reset
C19_DurableWritesPost ==
    [][(/\ last'.tab = "A"
        /\ ~last'.memoryOnly
        /\ last'.op = "reset" \/ (last'.op = "produce" /\ last'.skip)) =>
          \/ /\ Len(postedToB) = 1
             /\ postedToB[1].key = NS
             /\ last'.op = "reset" => postedToB[1].type = "reset"
             /\ (last'.op = "produce" /\ last'.value # Undefined) =>
                    /\ postedToB[1].type = "set"
                    /\ postedToB[1].value = structuredClone(valueAt("A", NS)')
             /\ (last'.op = "produce" /\ last'.value = Undefined) =>
                    \/ postedToB[1].type = "delete"
                    \/ /\ postedToB[1].type = "set"
                       /\ postedToB[1].value = structuredClone(valueAt("A", NS)')
          \/ /\ Len(postedToB) = 0
             /\ last'.op = "produce"
             /\ last'.value = Undefined
             /\ inMemStorage' = inMemStorage
             /\ localStorage' = localStorage]_vars

\* the message tab B handles in a step of Deliver
inbound == Head(channel["B"])

\* C20: an inbound message whose key is absent or whose type is none of the wire format's is
\* ignored: handling it leaves the local store as it was and invokes no listener
C20_UnknownMessagesIgnored ==
    [][(/\ last'.op = "message"
        /\ last'.tab = "B"
        /\ channel["B"] # <<>>
        /\ inbound.key = <<>> \/ inbound.type \notin MessageTypes) =>
          /\ inMemStorage' = inMemStorage
          /\ fired' = <<>>]_vars

-----------------------------------------------------------------------------
(* SpecFault: one tab, the durable store, over a durable medium that throws or holds an
   unparseable item *)

\* useSyncExternalStore's getSnapshot, called for a key; the value it returned is recorded
Get(t, key, memoryOnly) ==
    /\ Commit(t, getSnapshotWorld(World(t), key, memoryOnly),
              Op("get", t, key, getSnapshot(World(t), key, memoryOnly), FALSE, memoryOnly,
                 <<>>, <<>>))
    /\ UNCHANGED handles

InitFault ==
    /\ inMemStorage = [t \in Tabs |-> EmptyMap]
    /\ localStorage \in {EmptyMap, mapSet(EmptyMap, NS, Persisted), mapSet(EmptyMap, NS, Corrupt)}
    /\ listeners = [t \in Tabs |-> EmptyMap]
    /\ descendantListenerKeysByPrefix = [t \in Tabs |-> EmptyMap]
    /\ virtualRevisions = [t \in Tabs |-> EmptyMap]
    /\ handles = [t \in Tabs |-> {}]
    /\ channel = [t \in Tabs |-> <<>>]
    /\ concurrent = FALSE
    /\ fired = <<>>
    /\ last = NoOp
    /\ environment \in {"browser", "throwing"}
    /\ openTabs = {"A"}
    /\ nested = NoCall

FaultKeys == {NS, Key(<<(<<"x">>)>>)}

FaultValues == {Undefined, Num(1), Num(2)}

NextFault ==
    \/ \E key \in FaultKeys, value \in FaultValues, skipUpdate \in BOOLEAN :
          Produce("A", key, value, skipUpdate, FALSE)
    \/ \E key \in FaultKeys : Get("A", key, FALSE)
    \/ \E key \in FaultKeys : Subscribe("A", key, "f")

SpecFault == InitFault /\ [][NextFault]_vars

-----------------------------------------------------------------------------
(* Claims about a failing durable medium (SpecFault) *)

\* the durable medium throws, or its item for the namespace cannot be parsed
faulty == environment = "throwing" \/ mapGet(localStorage, NS) = Corrupt

\* the world of tab t over a working medium that has no item for the namespace
WorldAbsent(t) == [World(t) EXCEPT !.env = "browser", !.ls = mapDelete(localStorage, NS)]

\* C21: when the durable medium throws or holds an unparseable item, a get returns what
\* it returns with the item absent, and a set leaves the in-memory values and invokes
\* the listeners exactly as it does over a working medium with the item absent
C21_MediumFaultsContained ==
    [][(faulty /\ last'.tab = "A" /\ ~last'.memoryOnly) =>
          /\ last'.op = "get" =>
                \A key \in {last'.key} : last'.value = getSnapshot(WorldAbsent("A"), key, FALSE)
          /\ last'.op = "produce" =>
                \A key \in {last'.key}, value \in {last'.value}, skipUpdate \in {last'.skip} :
                    LET w == produce(WorldAbsent("A"), key, value, skipUpdate, FALSE)
                    IN /\ inMemStorage'["A"] = w.mem
                       /\ fired' = w.fired]_vars

\* a set over a faulty medium has put its value in memory and invoked the key's listener
C21_Witness ==
    /\ faulty
    /\ last.op = "produce"
    /\ ~last.skip
    /\ last.value = Num(2)
    /\ valueAt("A", last.key) = Num(2)
    /\ \E i \in 1..Len(fired) : fired[i].key = last.key

-----------------------------------------------------------------------------
(* Claims about paths that do not fit the shape of the root (SpecNested) *)

\* the value the traversal of path holds after its first k segments
reachedAfter(obj, path, k) ==
    IF k = 0 THEN obj ELSE getNestedRec(obj, SubSeq(split(path), 1, k))

\* before its last segment is applied, the traversal of path meets a scalar, null, a
\* missing value, or an array that the next segment addresses by no index
readMismatch(obj, path) ==
    /\ path # <<>>
    /\ \E k \in 0..(Len(split(path)) - 1) :
          \/ ~isContainer(reachedAfter(obj, path, k))
          \/ /\ isArray(reachedAfter(obj, path, k))
             /\ parseArrayIndex(split(path)[k + 1]) = -1

\* the path passes through a value that is there and is no container: a scalar root, or
\* a scalar or null at one of its proper prefixes
writeMismatch(obj, path) ==
    /\ path # <<>>
    /\ \/ obj.t = "number"
       \/ /\ isContainer(obj)
          /\ \E k \in 1..(Len(split(path)) - 1) :
                reachedAfter(obj, path, k).t \in {"number", "null"}

\* C22: a read of a path that passes through a scalar, null, a missing value or a
\* non-index segment of an array returns undefined, and a write of a path that passes
\* through a non-container intermediate returns a root deep-equal to the one it was given
C22_ShapeMismatch ==
    nested.done =>
        /\ readMismatch(nested.obj, nested.path) =>
              getNestedValue(nested.obj, nested.path) = Undefined
        /\ writeMismatch(nested.obj, nested.path) => isEqual(nested.result, nested.obj)

-----------------------------------------------------------------------------
(* Claims about invalid renames (SpecRename) *)

\* the step is a rename whose old key is missing from the value that was at the path,
\* or whose old and new key are the same
invalidRename ==
    /\ last'.op = "rename"
    /\ last'.oldKey = last'.newKey \/ ~hasOwnKey(last'.value, last'.oldKey)

\* the step changed no stored value, key order or key-set revision, persisted and posted
\* nothing and invoked no listener
ignored ==
    /\ inMemStorage' = inMemStorage
    /\ virtualRevisions' = virtualRevisions
    /\ localStorage' = localStorage
    /\ channel' = channel
    /\ fired' = <<>>

-----------------------------------------------------------------------------
(* SpecGet: one tab, reads and writes through both store instances, over what an
   earlier page load persisted *)

GetKeys == {NS, Key(<<(<<"x">>)>>)}

GetValues == {Undefined, Num(2)}

NextGet ==
    \/ \E key \in GetKeys, memoryOnly \in BOOLEAN : Get("A", key, memoryOnly)
    \/ \E key \in GetKeys, value \in GetValues, memoryOnly \in BOOLEAN :
          Produce("A", key, value, FALSE, memoryOnly)
    \/ \E key \in GetKeys : Subscribe("A", key, "f")

SpecGet == InitStored /\ [][NextGet]_vars

-----------------------------------------------------------------------------
(* Claims about reads (SpecGet) *)

\* what a get of key on the instance returns in the current state
gets(key, memoryOnly) == getSnapshot(World("A"), key, memoryOnly)

\* C24: a get on either instance invokes no listener, posts no message, writes nothing to
\* the durable medium, and leaves every get on either instance returning what it
\* returned before
C24_GetHasNoSideEffects ==
    [][last'.op = "get" =>
          /\ fired' = <<>>
          /\ channel' = channel
          /\ localStorage' = localStorage
          /\ \A key \in GetKeys, memoryOnly \in BOOLEAN :
                gets(key, memoryOnly)' = gets(key, memoryOnly)]_vars

-----------------------------------------------------------------------------
(* SpecServer: a context without window (server-side rendering).  The durable medium
   may exist there (a runtime with a localStorage global) and another context may
   listen to the channel name, but the module reaches neither *)

InitServer ==
    /\ inMemStorage = [t \in Tabs |-> EmptyMap]
    /\ localStorage \in {EmptyMap, mapSet(EmptyMap, NS, Persisted)}
    /\ listeners = [t \in Tabs |-> EmptyMap]
    /\ descendantListenerKeysByPrefix = [t \in Tabs |-> EmptyMap]
    /\ virtualRevisions = [t \in Tabs |-> EmptyMap]
    /\ handles = [t \in Tabs |-> {}]
    /\ channel = [t \in Tabs |-> <<>>]
    /\ concurrent = FALSE
    /\ fired = <<>>
    /\ last = NoOp
    /\ environment = "server"
    /\ openTabs = Tabs
    /\ nested = NoCall

ServerKeys == {NS, Key(<<(<<"x">>)>>), Key(<<(<<"y">>)>>)}

ServerValues == {Undefined, Num(1), Num(2)}

NextServer ==
    \/ \E key \in ServerKeys, value \in ServerValues, skipUpdate \in BOOLEAN,
          memoryOnly \in BOOLEAN : Produce("A", key, value, skipUpdate, memoryOnly)
    \/ \E key \in ServerKeys, memoryOnly \in BOOLEAN : Get("A", key, memoryOnly)
    \/ \E memoryOnly \in BOOLEAN : Reset("A", memoryOnly)
    \/ \E key \in ServerKeys : Subscribe("A", key, "f")

SpecServer == InitServer /\ [][NextServer]_vars

-----------------------------------------------------------------------------
(* Claims about the context without window (SpecServer) *)

\* the world the step would have left had it gone through the memory-only instance
viaMemoryStore ==
    IF last'.op = "produce"
    THEN produce(World("A"), last'.key, last'.value, last'.skip, TRUE)
    ELSE IF last'.op = "get" THEN getSnapshotWorld(World("A"), last'.key, TRUE)
    ELSE kvReset(World("A"), TRUE)

\* C25: without window, an operation of the durable instance leaves the durable medium
\* and the channel as they were, and leaves the memory, the revisions, the listener
\* invocations and the value returned that the same operation of the memory-only
\* instance leaves
C25_ServerDegradesToMemory ==
    [][(/\ environment = "server"
        /\ last'.tab = "A"
        /\ last'.op \in {"produce", "get", "reset"}
        /\ ~last'.memoryOnly) =>
          /\ localStorage' = localStorage
          /\ channel' = channel
          /\ inMemStorage'["A"] = viaMemoryStore.mem
          /\ virtualRevisions'["A"] = viaMemoryStore.rev
          /\ fired' = viaMemoryStore.fired
          /\ last'.op = "get" => last'.value = getSnapshot(World("A"), last'.key, TRUE)]_vars

\* without window, a set through the durable instance took effect in memory beside an
\* item of the durable medium it did not touch
C25_Witness ==
    /\ environment = "server"
    /\ last.op = "produce"
    /\ ~last.memoryOnly
    /\ last.value = Num(2)
    /\ valueAt("A", last.key) = Num(2)
    /\ mapGet(localStorage, NS) = Persisted
    /\ fired # <<>>

-----------------------------------------------------------------------------
(* Claims about the listeners of the ancestors (Spec) *)

\* C26: a produce at key K that changes the value and does not skip notifications
\* invokes every listener registered at the namespace of K and at every intermediate
\* ancestor prefix of K
C26_AncestorsInvoked ==
    [][(/\ last'.op = "produce"
        /\ ~last'.skip
        /\ ~isEqual(valueAt("A", last'.key), last'.value)) =>
          \A h \in registered("A") :
              isAncestorKey(h[1], last'.key) => invocations(h[1], h[2])' >= 1]_vars

-----------------------------------------------------------------------------
(* Claims about the registry and the reverse index (Spec) *)

\* the namespace and the intermediate prefixes of key
ancestorKeys(key) == {SubSeq(key, 1, i - 1) : i \in {j \in 1..Len(key) : key[j] = DOT}}

\* every registered key is in the set of each of its ancestors
indexComplete(t) ==
    \A k \in DOMAIN listeners[t] : \A p \in ancestorKeys(k) :
        setHas(setOf(descendantListenerKeysByPrefix[t], p), k)

\* the set of a prefix holds registered keys below the prefix only
indexSound(t) ==
    \A p \in DOMAIN descendantListenerKeysByPrefix[t] :
        \A i \in 1..Len(descendantListenerKeysByPrefix[t][p]) :
            /\ descendantListenerKeysByPrefix[t][p][i] \in DOMAIN listeners[t]
            /\ isAncestorKey(p, descendantListenerKeysByPrefix[t][p][i])

\* C27: after any subscribe and unsubscribe calls, for every registered key k and every
\* strict ancestor prefix p of k the entry of the reverse index for p contains k, and
\* the entries contain registered strict descendants of their prefix only
C27_ReverseIndexExact == indexComplete("A") /\ indexSound("A")

-----------------------------------------------------------------------------
(* Claims about leaks of the registry and the reverse index (SpecStop) *)

\* no key of the registry has an empty listener set
noEmptyListenerSet(t) == \A k \in DOMAIN listeners[t] : Len(listeners[t][k]) > 0

\* no prefix of the reverse index has an empty set or holds a key without listeners
noDanglingDescendant(t) ==
    \A p \in DOMAIN descendantListenerKeysByPrefix[t] :
        /\ Len(descendantListenerKeysByPrefix[t][p]) > 0
        /\ \A i \in 1..Len(descendantListenerKeysByPrefix[t][p]) :
              descendantListenerKeysByPrefix[t][p][i] \in DOMAIN listeners[t]

\* C28: after every subscribe, unsubscribe and notification (with listeners that
\* unsubscribe themselves), the registry holds no empty set, the reverse index holds no
\* empty set and no key without a listener, every registration has a handle, a call of
\* a handle removes its registration and no other, and with no registration left both
\* maps are empty
C28_NoLeaks ==
    [][/\ noEmptyListenerSet("A")'
       /\ noDanglingDescendant("A")'
       /\ registered("A")' \subseteq handles'["A"]
       /\ last'.op = "unsubscribe" =>
             \E h \in handles["A"] : registered("A")' = registered("A") \ {h}
       /\ registered("A")' = {} =>
             /\ listeners'["A"] = EmptyMap
             /\ descendantListenerKeysByPrefix'["A"] = EmptyMap]_vars

\* the handles of two subscriptions, one below the namespace, have been called and
\* both maps are empty
C28_Witness ==
    /\ last.op = "unsubscribe"
    /\ Cardinality(handles["A"]) = 2
    /\ \E h \in handles["A"] : h[1] # NS
    /\ listeners["A"] = EmptyMap
    /\ descendantListenerKeysByPrefix["A"] = EmptyMap

-----------------------------------------------------------------------------
(* Claims about the exact-match listeners of an inbound message (SpecChannel) *)

\* C29: an inbound set whose value deep-equals the root that tab B has cached for its
\* key invokes no listener registered at that key
C29_EqualMessageInvokesNone ==
    [][(/\ last'.op = "message"
        /\ last'.tab = "B"
        /\ channel["B"] # <<>>
        /\ inbound.type = "set"
        /\ inbound.key # <<>>
        /\ isEqual(kvGet(World("B"), inbound.key, TRUE), inbound.value)) =>
          \A i \in 1..Len(fired') : fired'[i].key # inbound.key]_vars

-----------------------------------------------------------------------------
(* SpecPass: one tab, the memory store, listeners that subscribe another listener to
   the key they are invoked for *)

PassKeys == {NS, Key(<<(<<"a">>)>>)}

PassListeners == {"f"} \cup Subscribing

PassValues == {Undefined, Num(1), Num(2)}

NextPass ==
    \/ \E key \in PassKeys, value \in PassValues : Produce("A", key, value, FALSE, TRUE)
    \/ \E key \in PassKeys, listener \in PassListeners : Subscribe("A", key, listener)
    \/ \E handle \in handles["A"] : Unsubscribe("A", handle)

SpecPass == Init /\ [][NextPass]_vars

-----------------------------------------------------------------------------
(* Claims about the listeners subscribed during a pass (SpecPass) *)

\* how many times the last operation invoked listeners at the key
invocationsAt(key) == Cardinality({i \in 1..Len(fired) : fired[i].key = key})

\* C30: an operation that passes once over the listeners of a key (every key but the
\* namespace written as a whole, whose listeners are passed over as exact match and as
\* root) invokes at that key only listeners registered there before the operation, and
\* no more of them than were registered
C30_PassOverSnapshot ==
    [][last'.op = "produce" =>
          \A key \in PassKeys :
              (key # NS \/ last'.key # NS) =>
                  /\ \A i \in 1..Len(fired') :
                        fired'[i].key = key => <<key, fired'[i].l>> \in registered("A")
                  /\ invocationsAt(key)' <= Len(setOf(listeners["A"], key))]_vars

-----------------------------------------------------------------------------
(* Claims about the key order of the copies (SpecNested) *)

\* the ordered keys the copy of a mapping is to have: the ordered keys of the mapping
\* that the copy still has, then the keys of the copy that the mapping had not
inheritedOrder(old, new) ==
    SelectSeq(getStableKeys(old), LAMBDA k : hasOwn(new, k))
        \o SelectSeq(objectKeys(new), LAMBDA k : ~setHas(getStableKeys(old), k))

\* the mapping of obj that the first k segments of the path lead to has an order record,
\* and its copy in result has the inherited order
orderInheritedAt(k) ==
    LET old == reachedAfter(nested.obj, nested.path, k)
        new == reachedAfter(nested.result, nested.path, k)
    IN (isRecord(old) /\ old.ho) =>
          /\ isRecord(new)
          /\ getStableKeys(new) = inheritedOrder(old, new)

\* C31: when a write goes through a mapping with an order record (at one of its keys
\* or below it), every array on the way being addressed by an index, the copy of the
\* mapping in the new root has the mapping's ordered keys filtered to the keys still
\* present, with the new keys appended, also when the mapping is an element of an array
C31_OrderSurvivesCopy ==
    (/\ nested.done
     /\ nested.path # <<>>
     /\ isContainer(nested.obj)
     /\ arraysIndexed(nested.obj, split(nested.path))) =>
        \A k \in 0..(Len(split(nested.path)) - 1) :
            (\A j \in 0..k : isContainer(reachedAfter(nested.obj, nested.path, j))) =>
                orderInheritedAt(k)

-----------------------------------------------------------------------------
(* Claims about writes of the current value (SpecChannel) *)

\* the step is a produce of tab A whose value deep-equals what the instance returned
\* for the key before it
producedCurrent ==
    /\ last'.op = "produce"
    /\ last'.tab = "A"
    /\ isEqual(getSnapshot(World("A"), last'.key, last'.memoryOnly), last'.value)

\* the step replaced no cached root, wrote nothing to the durable medium and posted no
\* message
wroteNothing ==
    /\ \A rootKey \in DOMAIN inMemStorage["A"] :
          /\ rootKey \in DOMAIN inMemStorage'["A"]
          /\ inMemStorage'["A"][rootKey] = inMemStorage["A"][rootKey]
    /\ localStorage' = localStorage
    /\ channel' = channel

\* C32: a produce with a value deep-equal to the current value at the key replaces no
\* cached root, writes nothing to the durable medium and posts no message, whether or
\* not it skips the notification
C32_EqualValueNotWritten == [][producedCurrent => wroteNothing]_vars

-----------------------------------------------------------------------------
(* Claims about the order of the steps of a write (Spec) *)

\* the log of a produce of the durable instance in the current state
producedLog(key, value, skipUpdate) == produce(World("A"), key, value, skipUpdate, FALSE).log

\* C33: in a write of the durable instance that invokes listeners, the new root is
\* persisted and broadcast only after the listeners have been invoked
C33_ListenersBeforePersist ==
    [][(/\ last'.op = "produce"
        /\ ~last'.memoryOnly
        /\ fired' # <<>>) =>
          \A key \in {last'.key}, value \in {last'.value}, skipUpdate \in {last'.skip} :
              /\ producedLog(key, value, skipUpdate) # <<>>
              /\ \A i \in 1..Len(producedLog(key, value, skipUpdate)) :
                    producedLog(key, value, skipUpdate)[i].invoked = Len(fired')]_vars

-----------------------------------------------------------------------------
(* SpecWriter: tab A alone writes the namespace, tab B reads it and handles A's messages
   in the order they were posted; several messages may be waiting *)

MaxPosted == 2

\* store.set(key, value) of tab t (store.delete(key) when the value is undefined), with
\* up to MaxPosted messages waiting in another tab
Write(t, key, value, skipUpdate) ==
    /\ CommitWithin(t, produce(World(t), key, value, skipUpdate, FALSE),
                    Op("produce", t, key, value, skipUpdate, FALSE, <<>>, <<>>), MaxPosted)
    /\ UNCHANGED handles

WriterKeys == {NS, Key(<<(<<"x">>)>>), Key(<<(<<"y">>)>>)}

WriterValues == {Undefined, Num(1)}

NextWriter ==
    \/ \E key \in WriterKeys, value \in WriterValues, skipUpdate \in BOOLEAN :
          Write("A", key, value, skipUpdate)
    \/ \E key \in WriterKeys : Get("B", key, FALSE)
    \/ Subscribe("B", NS, "f")
    \/ Deliver("B")

SpecWriter == InitChannel /\ [][NextWriter]_vars

\* C34: when tab A alone writes the namespace and tab B has handled, in the order they
\* were posted, all the messages A posted, get of the namespace in B equals get of it
\* in A (before the first write both read the durable medium)
C34_SingleWriterConverges ==
    channel["B"] = <<>> => isEqual(valueAt("B", NS), valueAt("A", NS))

\* tab B has just handled the last of A's messages, A having written both keys
C34_Witness ==
    /\ channel["B"] = <<>>
    /\ last.op = "message"
    /\ last.tab = "B"
    /\ isEqual(valueAt("A", Key(<<(<<"x">>)>>)), Num(1))
    /\ isEqual(valueAt("A", Key(<<(<<"y">>)>>)), Num(1))
    /\ isEqual(valueAt("B", NS), valueAt("A", NS))
    /\ mapHas(inMemStorage["B"], NS)

-----------------------------------------------------------------------------
(* Claims about the message handler (SpecTabs) *)

\* C35: a tab that handles a message posted by another tab writes nothing to the durable
\* medium and posts nothing: its own queue loses the message handled and the queue of
\* every other tab is as before, so a broadcast causes no further broadcast
C35_HandlerNeitherPostsNorPersists ==
    [][last'.op = "message" =>
          /\ localStorage' = localStorage
          /\ \A u \in Tabs :
                channel'[u] = IF u = last'.tab THEN Tail(channel[u]) ELSE channel[u]]_vars

\* tab B handled a set message: its cache holds the root and its listener was invoked
C35_Witness ==
    /\ last.op = "message"
    /\ last.tab = "B"
    /\ ~isNullish(last.value)
    /\ mapHas(inMemStorage["B"], NS)
    /\ fired # <<>>

-----------------------------------------------------------------------------
(* Claims about what a write leaves alone (SpecNested) *)

\* the segments that address a value from the root: none for the empty path
segmentsOf(p) == IF p = <<>> THEN <<>> ELSE split(p)

\* the segments of p are the first segments of q
isPrefixPath(p, q) ==
    /\ Len(segmentsOf(p)) <= Len(segmentsOf(q))
    /\ SubSeq(segmentsOf(q), 1, Len(segmentsOf(p))) = segmentsOf(p)

\* q is neither a prefix nor an extension of p
unrelatedPaths(p, q) == ~isPrefixPath(p, q) /\ ~isPrefixPath(q, p)

\* C36: setting a defined value at the path changes the value read at no path that is
\* neither a prefix nor an extension of it, also when the path addresses an array by a
\* segment that is not an index
C36_WriteFrame ==
    (nested.done /\ nested.value # Undefined) =>
        \A q \in NestedPaths :
            unrelatedPaths(nested.path, q) =>
                isEqual(getNestedValue(nested.obj, q), getNestedValue(nested.result, q))

-----------------------------------------------------------------------------
(* Claims about the value a rename moves (SpecRename) *)

\* the object at the path holds under newKey the value the old object held under
\* oldKey, has no oldKey, and holds every other key of the old object with its value
valueMoved ==
    LET object == memoryValueAt("A", last.key)
    IN /\ isRecord(object)
       /\ hasOwn(object, last.newKey)
       /\ isEqual(getProp(object, last.newKey), getProp(last.value, last.oldKey))
       /\ ~hasOwn(object, last.oldKey)
       /\ \A k \in {objectKeys(last.value)[i] : i \in 1..Len(objectKeys(last.value))}
                 \ {last.oldKey, last.newKey} :
             /\ hasOwn(object, k)
             /\ isEqual(getProp(object, k), getProp(last.value, k))

\* C37: a rename of a present key to another name leaves the old value under the new
\* key and no old key, every other key keeping its value, also when the new key was
\* already a key of the object, before or after the old key in the key order
C37_RenameMovesValue ==
    (renamedPresentKey /\ last.newKey # last.oldKey) => valueMoved

-----------------------------------------------------------------------------
(* SpecSorted: the array method sortedInsert of a node, on the memory store *)

MaxListLen == 3

\* the comparison functions handed to sortedInsert: by number, by number descending,
\* and by half the number (0 and 1 compare equal)
Comparators == {"asc", "desc", "half"}

cmp(c, a, b) ==
    IF c = "asc" THEN a.n - b.n
    ELSE IF c = "desc" THEN b.n - a.n
    ELSE (a.n \div 2) - (b.n \div 2)

\* node.ts line 150: a copy of the array at the path, empty when nothing is there
currentArray(w, path, memoryOnly) ==
    LET derivedValue == getSnapshot(w, path, memoryOnly)
    IN IF isArray(derivedValue)
       THEN [i \in 1..Len(derivedValue.e) |-> derivedValue.e[i].v]
       ELSE <<>>

RECURSIVE insertionPointStrict(_, _, _, _, _)
\* the binary search going left of the elements that compare equal
insertionPointStrict(c, newArray, item, left, right) ==
    IF left >= right THEN left
    ELSE LET mid == (left + right) \div 2
         IN IF cmp(c, newArray[mid + 1], item) < 0
            THEN insertionPointStrict(c, newArray, item, mid + 1, right)
            ELSE insertionPointStrict(c, newArray, item, left, mid)

RECURSIVE insertionPoint(_, _, _, _, _)
\* node.ts lines 241-248: the binary search, newArray[mid] being the element mid + 1
insertionPoint(c, newArray, item, left, right) ==
    IF left >= right THEN left
    ELSE LET mid == (left + right) \div 2
         IN IF cmp(c, newArray[mid + 1], item) <= 0
            THEN insertionPoint(c, newArray, item, mid + 1, right)
            ELSE insertionPoint(c, newArray, item, left, mid)

\* newArray.splice(left, 0, item)
spliceIn(newArray, left, item) ==
    SubSeq(newArray, 1, left) \o <<item>> \o SubSeq(newArray, left + 1, Len(newArray))

RECURSIVE sortedInsert(_, _, _, _)
\* node.ts lines 234-252: newArray after the items from the i-th on are inserted
sortedInsert(c, newArray, items, i) ==
    IF i > Len(items) THEN newArray
    ELSE sortedInsert(c,
                      spliceIn(newArray,
                               insertionPoint(c, newArray, items[i], 0, Len(newArray)),
                               items[i]),
                      items, i + 1)

\* node.sortedInsert(cmp, ...items) of the node at the path: the new array is stored by
\* set and its length returned
SortedInsert(t, path, c, items) ==
    /\ getSnapshot(World(t), path, TRUE) = Undefined \/ isArray(getSnapshot(World(t), path, TRUE))
    /\ Len(currentArray(World(t), path, TRUE)) + Len(items) <= MaxListLen
    /\ Commit(t, produce(World(t), path,
                         Arr(0, sortedInsert(c, currentArray(World(t), path, TRUE), items, 1)),
                         FALSE, TRUE),
              Op("sortedInsert", t, path, Arr(0, items), FALSE, TRUE, <<c>>, <<>>))
    /\ UNCHANGED handles

SortedKey == Key(<<(<<"l">>)>>)

SortedNumbers == {Num(0), Num(1), Num(2)}

SortedItems == UNION {[1..n -> SortedNumbers] : n \in 0..2}

NextSorted ==
    \/ \E c \in Comparators, items \in SortedItems : SortedInsert("A", SortedKey, c, items)
    \/ Produce("A", SortedKey, Undefined, FALSE, TRUE)
    \/ Subscribe("A", SortedKey, "f")

SpecSorted == Init /\ [][NextSorted]_vars

-----------------------------------------------------------------------------
(* Claims about sortedInsert (SpecSorted) *)

\* the array is sorted under the comparison
isSorted(c, array) ==
    \A i \in 1..Len(array), j \in 1..Len(array) : i < j => cmp(c, array[i], array[j]) <= 0

\* the item placed after the elements of the array that do not compare greater
placedAfterEqual(c, array, item) ==
    LET before == SelectSeq(array, LAMBDA x : cmp(c, x, item) <= 0)
        after == SelectSeq(array, LAMBDA x : cmp(c, x, item) > 0)
    IN before \o <<item>> \o after

RECURSIVE placedAll(_, _, _)
\* each item in turn placed after the elements that do not compare greater
placedAll(c, array, items) ==
    IF items = <<>> THEN array
    ELSE placedAll(c, placedAfterEqual(c, array, Head(items)), Tail(items))

\* how many times x occurs in the sequence
occurrences(s, x) == Cardinality({i \in 1..Len(s) : s[i] = x})

\* C38: sortedInsert on an array sorted under cmp stores an array that is sorted under
\* cmp, holds exactly the old elements and the items, has each item after the elements
\* that compare equal to it, and returns the length of the stored array
C38_SortedInsert ==
    [][last'.op = "sortedInsert" =>
          \A c \in {last'.oldKey[1]},
             items \in {[i \in 1..Len(last'.value.e) |-> last'.value.e[i].v]},
             old \in {currentArray(World("A"), SortedKey, TRUE)},
             new \in {currentArray(World("A"), SortedKey, TRUE)'} :
              isSorted(c, old) =>
                  /\ isSorted(c, new)
                  /\ \A x \in SortedNumbers :
                        occurrences(new, x) = occurrences(old, x) + occurrences(items, x)
                  /\ new = placedAll(c, old, items)
                  /\ Len(sortedInsert(c, old, items, 1)) = Len(new)]_vars

\* 0 was inserted, under the comparison by halves, into an array holding 1 and 2: it
\* stands after the 1 it compares equal to
C38_Witness ==
    /\ last.op = "sortedInsert"
    /\ last.oldKey = <<"half">>
    /\ last.value = Arr(0, <<Num(0)>>)
    /\ currentArray(World("A"), SortedKey, TRUE) = <<Num(1), Num(0), Num(2)>>

-----------------------------------------------------------------------------
(* SpecDerived: nodes of the memory store created with derived({from, to}) *)

\* the pairs of functions handed to derived: none (both unchanged), the stored number
\* one above the derived one, the stored number half the derived one
Derivations == {"unchanged", "offset", "scaled"}

from(d, value) ==
    IF value.t # "number" \/ d = "unchanged" THEN value
    ELSE IF d = "offset" THEN Num(value.n - 1)
    ELSE Num(value.n * 2)

to(d, value) ==
    IF value.t # "number" \/ d = "unchanged" THEN value
    ELSE IF d = "offset" THEN Num(value.n + 1)
    ELSE Num(value.n \div 2)

\* node.ts lines 80-82: node.value
nodeValue(w, path, d) == from(d, getSnapshot(w, path, TRUE))

\* node.ts lines 89-92 and root.ts lines 90-93: what the listener handed to
\* node.subscribe receives when the listener registered at the path is invoked
nodeSubscribeArgument(w, path, d) == to(d, getSnapshot(w, path, TRUE))

\* node.ts lines 83-85: node.set(value) of the node derived with d
NodeSet(t, path, d, value) ==
    /\ Commit(t, produce(World(t), path, to(d, value), FALSE, TRUE),
              Op("nodeSet", t, path, value, FALSE, TRUE, <<d>>, <<>>))
    /\ UNCHANGED handles

DerivedKeys == {Key(<<(<<"u">>)>>), Key(<<(<<"v">>)>>)}

DerivedValues == {Undefined, Num(0), Num(2), Num(4)}

NextDerived ==
    \/ \E path \in DerivedKeys, d \in Derivations, value \in DerivedValues :
          NodeSet("A", path, d, value)
    \/ \E path \in DerivedKeys : Subscribe("A", path, "f")

SpecDerived == Init /\ [][NextDerived]_vars

-----------------------------------------------------------------------------
(* Claims about derived nodes (SpecDerived) *)

\* C39: after a set(v) through a derived node that invoked the listener subscribed
\* through that node, the stored value is to(v), and the value the listener receives
\* equals the value the node returns, from applied to the stored value
C39_ListenerReceivesDerivedValue ==
    (last.op = "nodeSet" /\ fired # <<>>) =>
        \A d \in {last.oldKey[1]} :
            /\ getSnapshot(World("A"), last.key, TRUE) = to(d, last.value)
            /\ nodeSubscribeArgument(World("A"), last.key, d) = nodeValue(World("A"), last.key, d)

====
